---- MODULE Spec2Model ----
(***************************************************************************)
(* Events CSV merge pipeline (tools/merge_pipeline.py): the loader, the    *)
(* deduplicator, the three structural validators, the single-pass merge    *)
(* engine, the output writer and the exit code of MergePipeline.run().     *)
(*                                                                         *)
(* The pipeline object is the record `self`; every method of MergePipeline *)
(* that mutates it is an operator from the old object to the new one.      *)
(* A CSV row is a record with one string per column of the header; the     *)
(* file is read row by row, each row drawn from a bounded set of rows.     *)
(* No line of the file has fewer cells than the header.  A line with more  *)
(* cells gives a row that holds them under csv.DictReader's restkey, the   *)
(* key None.  Two calls can raise inside run(): sorted(row.items()) in     *)
(* _deduplicate on a row with the key None, and int(bar) on a bar that is  *)
(* not an integer, first met in _validate_sort_order.                      *)
(***************************************************************************)
EXTENDS Integers, Sequences, FiniteSets, TLC

VARIABLES
    fieldnames,           \* header of the input file (csv.DictReader.fieldnames)
    input,                \* the rows the reader has yielded so far, in file order
    rows,                 \* run()'s local `rows`
    pc,                   \* position inside run()
    self,                 \* the MergePipeline object
    i,                    \* _merge: index of the next row of the for loop
    current_context,      \* _merge local: <<>> (None) or <<ContextRow>>
    current_session_bar,  \* _merge local: <<>> (None) or <<session_id, bar>>
    snapshot_seen,        \* _merge local
    lock_seen,            \* _merge local
    written,              \* the four artifacts each finished run() wrote, in
                          \* the order of the runs: <<>> before the first write
    exit_code             \* value returned by the last run() that returned:
                          \* -1 before the first return

vars == <<fieldnames, input, rows, pc, self, i, current_context,
          current_session_bar, snapshot_seen, lock_seen, written, exit_code>>

-----------------------------------------------------------------------------
(* Bounds of the model *)

\* longest input file, in data rows
MaxRows == 4

-----------------------------------------------------------------------------
(* Constants of the program *)

STALENESS_THRESHOLD == 50

RankSnapshot == 1
RankLock == 2
RankEngagement == 3
RankUnknown == 99

EVENT_TYPE_RANK(event_type) ==
    CASE event_type = "PHASE_SNAPSHOT" -> RankSnapshot
      [] event_type = "MODE_LOCK" -> RankLock
      [] event_type = "ENGAGEMENT_FINAL" -> RankEngagement
      [] OTHER -> RankUnknown

VALID_OUTCOMES == {"ACCEPT", "REJECT", "TAG", "PROBE", "TEST"}

REQUIRED_COLUMNS == {"session_id", "session_type", "ts", "bar", "event_type"}

FULL_HEADERS ==
    {"session_id", "session_type", "ts", "bar", "event_type", "zone_id",
     "zone_type", "entry_price", "exit_price", "bars", "outcome", "escape_vel",
     "vol_ratio", "aggression", "facilitation", "market_state", "phase",
     "message"}

-----------------------------------------------------------------------------
(* Python values and conversions, on the texts the bounded inputs use *)

\* Python's None where a string is expected
None == "<None>"

\* `a or b` on Optional[str]: None and the empty string are falsy
PyOr(a, b) == IF a = None \/ a = "" THEN b ELSE a

\* the texts int() accepts
IntTexts == {"-1", "0", "1", "01", "2", "52"}

\* int(text) raises ValueError on any other text
IntRaises(text) == text \notin IntTexts

\* int(text): a leading zero and a sign are accepted
PyInt(text) ==
    CASE text = "-1" -> -1
      [] text = "0" -> 0
      [] text = "1" -> 1
      [] text = "01" -> 1
      [] text = "2" -> 2
      [] text = "52" -> 52

\* str(n) of the integers above
PyStr(n) ==
    CASE n = -1 -> "-1"
      [] n = 0 -> "0"
      [] n = 1 -> "1"
      [] n = 2 -> "2"
      [] n = 52 -> "52"

\* float(text) raises ValueError: the empty text and non-numeric text
FloatRaises(text) == text \in {"", "abc"}

\* float(text) == 0, for a text float() accepts
FloatIsZero(text) == text \in {"0", "0.0"}

\* text.strip() == '' : the empty text and whitespace-only text
StripIsEmpty(text) == text \in {"", " "}

\* Python's str ordering (code points, lexicographic), as the position in
\* this list of every text the model compares
LexOrder == <<"", " ", "09:00", "09:05", "10:00", "9:00", "A", "B">>

LexPos(text) == CHOOSE k \in 1..Len(LexOrder) : LexOrder[k] = text

StrLess(a, b) == LexPos(a) < LexPos(b)

\* max(a, b) on str
StrMax(a, b) == IF StrLess(a, b) THEN b ELSE a

\* message[4:] of a message that starts with 'raw:'
RawPrefixed == {"raw:X", "raw:Y", "raw:"}

StartsWithRaw(message) == message \in RawPrefixed

AfterRaw(message) ==
    CASE message = "raw:X" -> "X"
      [] message = "raw:Y" -> "Y"
      [] message = "raw:" -> ""

-----------------------------------------------------------------------------
(* Input rows *)

\* a row of a file written with the full header; restkey is the item
\* row[None] of csv.DictReader: the cells of the line past the header, <<>>
\* when the row has no such item
Row(sid, stype, ts, bar, et, zid, zt, ep, xp, bars, out, agg, phase, msg) ==
    [session_id |-> sid, session_type |-> stype, ts |-> ts, bar |-> bar,
     event_type |-> et, zone_id |-> zid, zone_type |-> zt, entry_price |-> ep,
     exit_price |-> xp, bars |-> bars, outcome |-> out, escape_vel |-> "0.5",
     vol_ratio |-> "0.8", aggression |-> agg, facilitation |-> "",
     market_state |-> "", phase |-> phase, message |-> msg, restkey |-> <<>>]

\* the row of the same line with one more cell at its end
LongRow(row) == [row EXCEPT !.restkey = <<"extra">>]

Snapshot(sid, stype, ts, bar, phase, msg) ==
    Row(sid, stype, ts, bar, "PHASE_SNAPSHOT", "-1", "NONE", "0", "0", "0", "",
        "", phase, msg)

Lock(sid, stype, ts, bar, agg, msg) ==
    Row(sid, stype, ts, bar, "MODE_LOCK", "0", "", "0", "0", "0", "", agg,
        "ROTATION", msg)

Engagement(sid, ts, bar, zid, zt, ep, xp, bars, out) ==
    Row(sid, "RTH", ts, bar, "ENGAGEMENT_FINAL", zid, zt, ep, xp, bars, out,
        "", "", "")

-----------------------------------------------------------------------------
(* Error records and the pipeline object *)

\* Error(...): value_a and value_b hold the parts of the formatted text as a
\* tuple, <<>> when unset; raw_row and ts_detected are not modelled
Error(error_type, severity, session_id, bar, event_type, column_name, value_a, value_b) ==
    [error_type |-> error_type, severity |-> severity, session_id |-> session_id,
     bar |-> bar, event_type |-> event_type, column_name |-> column_name,
     value_a |-> value_a, value_b |-> value_b]

\* MergePipeline.__init__
NewPipeline ==
    [errors |-> <<>>, contexts |-> <<>>, engagements |-> <<>>,
     has_fatal |-> FALSE, has_recoverable |-> FALSE,
     context_by_session_bar |-> <<>>,
     seen_engagements |-> {},
     summary |-> [input_rows |-> 0, duplicate_rows_dropped |-> 0,
                  context_rows |-> 0, engagement_rows |-> 0, error_count |-> 0,
                  fatal_errors |-> 0, recoverable_errors |-> 0]]

\* add_error returns True exactly for a FATAL error
IsFatal(error) == error.severity = "FATAL"

add_error(obj, error) ==
    LET counted == [obj EXCEPT !.errors = Append(@, error),
                               !.summary.error_count = @ + 1]
    IN  IF IsFatal(error)
        THEN [counted EXCEPT !.has_fatal = TRUE, !.summary.fatal_errors = @ + 1]
        ELSE [counted EXCEPT !.has_recoverable = TRUE,
                             !.summary.recoverable_errors = @ + 1]

-----------------------------------------------------------------------------
(* Output *)

BoolText(b) == IF b THEN "TRUE" ELSE "FALSE"

\* ContextRow.to_dict
ContextToDict(ctx) ==
    [session_id |-> ctx.session_id, bar |-> ctx.bar,
     session_type |-> ctx.session_type, ts |-> ctx.ts,
     phase |-> PyOr(ctx.phase, ""),
     zone_id_snapshot |-> PyOr(ctx.zone_id_snapshot, ""),
     zone_type_snapshot |-> PyOr(ctx.zone_type_snapshot, ""),
     aggression |-> PyOr(ctx.aggression, ""),
     facilitation |-> PyOr(ctx.facilitation, ""),
     market_state |-> PyOr(ctx.market_state, ""),
     raw_state |-> PyOr(ctx.raw_state, ""),
     snapshot_message |-> PyOr(ctx.snapshot_message, ""),
     context_complete |-> BoolText(ctx.context_complete),
     _source_rows |-> ctx._source_rows]

\* EngagementRow.to_dict; context_stale is <<>> (None) or <<bool>>, and the
\* cell _flags is the comma-joined list, kept here as the list
EngagementToDict(eng) ==
    [session_id |-> eng.session_id, bar |-> eng.bar, ts |-> eng.ts,
     session_type |-> eng.session_type, zone_id |-> eng.zone_id,
     zone_type |-> eng.zone_type, entry_price |-> eng.entry_price,
     exit_price |-> eng.exit_price, bars |-> eng.bars, outcome |-> eng.outcome,
     escape_vel |-> eng.escape_vel, vol_ratio |-> eng.vol_ratio,
     context_bar |-> PyOr(eng.context_bar, ""),
     context_stale |-> IF eng.orphan THEN ""
                       ELSE BoolText(eng.context_stale = <<TRUE>>),
     ctx_aggression |-> PyOr(eng.ctx_aggression, ""),
     ctx_facilitation |-> PyOr(eng.ctx_facilitation, ""),
     ctx_market_state |-> PyOr(eng.ctx_market_state, ""),
     ctx_phase |-> PyOr(eng.ctx_phase, ""),
     orphan |-> BoolText(eng.orphan),
     _flags |-> eng._flags]

\* Error.to_dict without raw_row and ts_detected
ErrorToDict(err) ==
    [err EXCEPT !.session_id = PyOr(@, ""), !.bar = PyOr(@, ""),
                !.event_type = PyOr(@, ""), !.column_name = PyOr(@, "")]

\* the exit code _write_summary_json stores in the summary
SummaryExitCode(obj) ==
    IF obj.has_fatal THEN 2 ELSE IF obj.has_recoverable THEN 1 ELSE 0

\* _write_summary_json sets summary['exit_code'] on the object itself
\* (ts_completed is the wall clock and is not modelled)
WithSummaryExit(obj) ==
    [obj EXCEPT !.summary =
        [k \in DOMAIN obj.summary \cup {"exit_code"} |->
            IF k = "exit_code" THEN SummaryExitCode(obj) ELSE obj.summary[k]]]

\* the four files _write_outputs leaves on disk
Artifacts(obj) ==
    [context |-> [k \in 1..Len(obj.contexts) |-> ContextToDict(obj.contexts[k])],
     engagement |-> [k \in 1..Len(obj.engagements) |->
                        EngagementToDict(obj.engagements[k])],
     error |-> [k \in 1..Len(obj.errors) |-> ErrorToDict(obj.errors[k])],
     summary |-> WithSummaryExit(obj).summary]

-----------------------------------------------------------------------------
(* run(): returning *)

\* `self._write_outputs(); return code`
WriteAndReturn(obj, code) ==
    /\ self' = WithSummaryExit(obj)
    /\ written' = Append(written, Artifacts(obj))
    /\ exit_code' = code
    /\ pc' = "done"

\* mutant: the except clause returns without writing the outputs
RaiseInternalNoWrite(obj, what) ==
    /\ self' = add_error(obj, Error("INTERNAL_ERROR", "FATAL", None, None, None,
                                    None, what, <<>>))
    /\ exit_code' = 2
    /\ pc' = "done"
    /\ UNCHANGED written

\* the except clause of run(): record INTERNAL_ERROR, write, return 2
RaiseInternal(obj, what) ==
    WriteAndReturn(
        add_error(obj, Error("INTERNAL_ERROR", "FATAL", None, None, None, None,
                             what, <<>>)),
        2)

\* mutant: the two codes of the loader's return swapped
LoaderFatalExitSwapped(obj) == IF obj.summary.fatal_errors > 0 THEN 3 ELSE 2

\* run() after _load_input recorded a fatal error
LoaderFatalExit(obj) == IF obj.summary.fatal_errors > 0 THEN 2 ELSE 3

-----------------------------------------------------------------------------
(* Phase 0: _load_input *)

Headers == {FULL_HEADERS, FULL_HEADERS \ {"bar"}, {}}

\* mutant: the identity columns are looked at in the order ts, bar, session_id
MissingIdentityColumnTsFirst(row) ==
    IF StripIsEmpty(row.ts) THEN "ts"
    ELSE IF StripIsEmpty(row.bar) THEN "bar"
    ELSE IF StripIsEmpty(row.session_id) THEN "session_id"
    ELSE None

\* the first identity column of the row that is empty, None when all are set
MissingIdentityColumn(row) ==
    IF StripIsEmpty(row.session_id) THEN "session_id"
    ELSE IF StripIsEmpty(row.bar) THEN "bar"
    ELSE IF StripIsEmpty(row.ts) THEN "ts"
    ELSE None

\* ','.join(missing) for the one missing column of the headers above
JoinColumns(missing) == CHOOSE column \in missing : TRUE

\* run() after _load_input recorded a fatal error: write and return
LoaderFatal(obj) == WriteAndReturn(obj, LoaderFatalExit(obj))

\* open the file and check the header
OpenInput ==
    /\ pc = "open"
    /\ IF fieldnames # {} /\ REQUIRED_COLUMNS \ fieldnames # {}
       THEN LoaderFatal(add_error(self,
                Error("MISSING_COLUMNS", "FATAL", None, None, None,
                      JoinColumns(REQUIRED_COLUMNS \ fieldnames), <<>>, <<>>)))
       ELSE /\ pc' = "load"
            /\ UNCHANGED <<self, written, exit_code>>
    /\ UNCHANGED <<fieldnames, input, rows, i, current_context,
                   current_session_bar, snapshot_seen, lock_seen>>

\* the body of `for row in reader` on the row the reader yields
ReadRow(row) ==
    LET counted == [self EXCEPT !.summary.input_rows = @ + 1]
        column == MissingIdentityColumn(row)
    IN  IF column # None
        THEN /\ LoaderFatal(add_error(counted,
                    Error("MISSING_IDENTITY", "FATAL", None, None, None,
                          column, <<>>, <<>>)))
             /\ UNCHANGED rows
        ELSE /\ rows' = Append(rows, row)
             /\ self' = counted
             /\ UNCHANGED <<pc, written, exit_code>>

\* one iteration of `for row in reader` in the first run on the file: the
\* next line of the file is any row
LoadRow(row) ==
    /\ pc = "load"
    /\ fieldnames # {}
    /\ written = <<>>
    /\ Len(input) < MaxRows
    /\ input' = Append(input, row)
    /\ ReadRow(row)
    /\ UNCHANGED <<fieldnames, i, current_context, current_session_bar,
                   snapshot_seen, lock_seen>>

\* the reader is exhausted, every line of the file was read: _load_input
\* returns rows, no fatal was recorded
LoadEOF ==
    /\ pc = "load"
    /\ self.summary.input_rows = Len(input)
    /\ pc' = "dedup"
    /\ UNCHANGED <<fieldnames, input, rows, self, i, current_context,
                   current_session_bar, snapshot_seen, lock_seen, written,
                   exit_code>>


-----------------------------------------------------------------------------
(* Phase 0: _deduplicate *)

\* mutant: a row is dropped only when it equals the row right before it
FirstOccurrenceAmongNeighbours(rs, k) == k = 1 \/ rs[k - 1] # rs[k]

\* rows[k] is the first occurrence of its row_key (all column values equal)
FirstOccurrence(rs, k) == \A j \in 1..(k - 1) : rs[j] # rs[k]

\* mutant: the first occurrence of a row is not counted
OccurrencesAfterFirst(rs, row) == Cardinality({k \in 1..Len(rs) : rs[k] = row}) - 1

\* seen[row_key]
Occurrences(rs, row) == Cardinality({k \in 1..Len(rs) : rs[k] = row})

RECURSIVE KeepFirst(_, _)
KeepFirst(rs, k) ==
    IF k > Len(rs) THEN <<>>
    ELSE IF FirstOccurrence(rs, k) THEN <<rs[k]>> \o KeepFirst(rs, k + 1)
    ELSE KeepFirst(rs, k + 1)

\* the list `result`
DedupResult(rs) == KeepFirst(rs, 1)

\* the loop over seen.items(), in insertion order: one DUPLICATE_ROW per key
\* whose count exceeds one
RECURSIVE LogDuplicates(_, _, _, _)
LogDuplicates(obj, rs, result, k) ==
    IF k > Len(result) THEN obj
    ELSE LET count == Occurrences(rs, result[k])
             logged == [add_error(obj, Error("DUPLICATE_ROW", "RECOVERABLE",
                                             result[k].session_id, result[k].bar,
                                             result[k].event_type, None,
                                             <<"count", count>>, <<>>))
                        EXCEPT !.summary.duplicate_rows_dropped = @ + (count - 1)]
         IN  LogDuplicates(IF count > 1 THEN logged ELSE obj, rs, result, k + 1)

\* tuple(sorted(row.items())) raises TypeError: the key None of the row is
\* compared with a column name
RowKeyRaises(row) == row.restkey # <<>>

\* the first loop raises at the first such row, before any error is logged
Deduplicate ==
    /\ pc = "dedup"
    /\ IF \E k \in 1..Len(rows) : RowKeyRaises(rows[k])
       THEN /\ RaiseInternal(self, <<"TypeError">>)
            /\ UNCHANGED rows
       ELSE /\ rows' = DedupResult(rows)
            /\ self' = LogDuplicates(self, rows, DedupResult(rows), 1)
            /\ pc' = "sort"
            /\ UNCHANGED <<written, exit_code>>
    /\ UNCHANGED <<fieldnames, input, i, current_context, current_session_bar,
                   snapshot_seen, lock_seen>>

-----------------------------------------------------------------------------
(* Phase 0: _validate_sort_order *)

\* (session_id, bar, rank)
SortKey(row) == <<row.session_id, PyInt(row.bar), EVENT_TYPE_RANK(row.event_type)>>

\* mutant: the rank of the event type is left out of the comparison
KeyLessWithoutRank(a, b) ==
    \/ StrLess(a[1], b[1])
    \/ a[1] = b[1] /\ a[2] < b[2]

\* tuple comparison a < b
KeyLess(a, b) ==
    \/ StrLess(a[1], b[1])
    \/ a[1] = b[1] /\ a[2] < b[2]
    \/ a[1] = b[1] /\ a[2] = b[2] /\ a[3] < b[3]

\* the loop: <<"ok">>, <<"raise", k>> when int(bar) raises at row k, or
\* <<"unsorted", k>> at the first row k whose key is below its predecessor's
RECURSIVE SortScan(_, _)
SortScan(rs, k) ==
    IF k > Len(rs) THEN <<"ok">>
    ELSE IF IntRaises(rs[k].bar) THEN <<"raise", k>>
    ELSE IF k > 1 /\ KeyLess(SortKey(rs[k]), SortKey(rs[k - 1]))
         THEN <<"unsorted", k>>
    ELSE SortScan(rs, k + 1)

\* mutant: an unsorted input exits like any other fatal error
SortFailExitAsFatal == 3 - 1

\* `return 3` of run() when _validate_sort_order returns False
SortFailExit == 3

ValidateSortOrder ==
    /\ pc = "sort"
    /\ LET scan == SortScan(rows, 1)
       IN  CASE scan[1] = "ok" ->
                    /\ pc' = "ts"
                    /\ UNCHANGED <<self, written, exit_code>>
             [] scan[1] = "raise" ->
                    RaiseInternal(self, <<"ValueError", rows[scan[2]].bar>>)
             [] scan[1] = "unsorted" ->
                    WriteAndReturn(
                        add_error(self,
                            Error("UNSORTED_INPUT", "FATAL",
                                  rows[scan[2]].session_id,
                                  PyStr(PyInt(rows[scan[2]].bar)),
                                  rows[scan[2]].event_type, None, <<>>, <<>>)),
                        SortFailExit)
    /\ UNCHANGED <<fieldnames, input, rows, i, current_context,
                   current_session_bar, snapshot_seen, lock_seen>>

-----------------------------------------------------------------------------
(* Phase 0: _validate_timestamps *)

\* session ids in the insertion order of session_bars
RECURSIVE SessionOrder(_, _, _)
SessionOrder(rs, k, acc) ==
    IF k > Len(rs) THEN acc
    ELSE SessionOrder(rs, k + 1,
            IF \E j \in 1..Len(acc) : acc[j] = rs[k].session_id
            THEN acc ELSE Append(acc, rs[k].session_id))

\* session_bars[session_id]: the (bar, ts) pairs in row order
RECURSIVE BarTsList(_, _, _)
BarTsList(rs, sid, k) ==
    IF k > Len(rs) THEN <<>>
    ELSE (IF rs[k].session_id = sid THEN <<<<PyInt(rs[k].bar), rs[k].ts>>>> ELSE <<>>)
         \o BarTsList(rs, sid, k + 1)

\* insert p behind every pair whose bar is not larger (list.sort is stable)
RECURSIVE InsertByBar(_, _)
InsertByBar(sorted, p) ==
    IF sorted = <<>> THEN <<p>>
    ELSE IF sorted[Len(sorted)][1] <= p[1] THEN Append(sorted, p)
    ELSE Append(InsertByBar(SubSeq(sorted, 1, Len(sorted) - 1), p),
                sorted[Len(sorted)])

RECURSIVE SortByBar(_, _, _)
SortByBar(list, k, acc) ==
    IF k > Len(list) THEN acc ELSE SortByBar(list, k + 1, InsertByBar(acc, list[k]))

\* the inner loop over one session; prev is <<>> (prev_bar is None) or
\* <<prev_bar, prev_ts>>; the result is <<>> or <<the error>>
RECURSIVE TsScan(_, _, _, _)
TsScan(sid, list, k, prev) ==
    IF k > Len(list) THEN <<>>
    ELSE LET bar == list[k][1]
             ts == list[k][2]
         IN  IF prev # <<>> /\ bar > prev[1] /\ StrLess(ts, prev[2])
             THEN <<Error("TIMESTAMP_INVERSION", "FATAL", sid, None, None, None,
                          <<"bar", prev[1], prev[2]>>, <<"bar", bar, ts>>)>>
             ELSE TsScan(sid, list, k + 1,
                         IF prev # <<>> /\ prev[1] = bar
                         THEN <<bar, IF prev[2] # "" THEN StrMax(prev[2], ts) ELSE ts>>
                         ELSE <<bar, ts>>)

\* the outer loop over the sessions
RECURSIVE TsScanSessions(_, _, _)
TsScanSessions(rs, order, k) ==
    IF k > Len(order) THEN <<>>
    ELSE LET found == TsScan(order[k],
                             SortByBar(BarTsList(rs, order[k], 1), 1, <<>>),
                             1, <<>>)
         IN  IF found # <<>> THEN found ELSE TsScanSessions(rs, order, k + 1)

TimestampError(rs) == TsScanSessions(rs, SessionOrder(rs, 1, <<>>), 1)

ValidateTimestamps ==
    /\ pc = "ts"
    /\ IF TimestampError(rows) = <<>>
       THEN /\ pc' = "zone"
            /\ UNCHANGED <<self, written, exit_code>>
       ELSE WriteAndReturn(add_error(self, TimestampError(rows)[1]), 2)
    /\ UNCHANGED <<fieldnames, input, rows, i, current_context,
                   current_session_bar, snapshot_seen, lock_seen>>

-----------------------------------------------------------------------------
(* Phase 0: _validate_zone_consistency *)

\* mutant: every ENGAGEMENT_FINAL row is checked, whatever its zone_id
ZoneSkippedByEventTypeOnly(row) == row.event_type # "ENGAGEMENT_FINAL"

\* the row is skipped by the loop
ZoneSkipped(row) ==
    \/ row.event_type # "ENGAGEMENT_FINAL"
    \/ row.zone_id = ""
    \/ row.zone_id = "-1"

\* zone_types[key] when row k is reached: the zone_type of the first row
\* before k with the key, <<>> when the key is not in the dict
FirstZoneType(rs, k) ==
    LET same == {j \in 1..(k - 1) :
                    /\ ~ZoneSkipped(rs[j])
                    /\ rs[j].session_id = rs[k].session_id
                    /\ rs[j].zone_id = rs[k].zone_id}
    IN  IF same = {} THEN <<>>
        ELSE <<rs[CHOOSE j \in same : \A m \in same : j <= m].zone_type>>

RECURSIVE ZoneScan(_, _)
ZoneScan(rs, k) ==
    IF k > Len(rs) THEN <<>>
    ELSE IF /\ ~ZoneSkipped(rs[k])
            /\ FirstZoneType(rs, k) # <<>>
            /\ FirstZoneType(rs, k)[1] # rs[k].zone_type
         THEN <<Error("ZONE_TYPE_INCONSISTENCY", "FATAL", rs[k].session_id, None,
                      None, rs[k].zone_id, FirstZoneType(rs, k),
                      <<rs[k].zone_type>>)>>
    ELSE ZoneScan(rs, k + 1)

ValidateZoneConsistency ==
    /\ pc = "zone"
    /\ IF ZoneScan(rows, 1) = <<>>
       THEN /\ pc' = "merge"
            /\ UNCHANGED <<self, written, exit_code>>
       ELSE WriteAndReturn(add_error(self, ZoneScan(rows, 1)[1]), 2)
    /\ UNCHANGED <<fieldnames, input, rows, i, current_context,
                   current_session_bar, snapshot_seen, lock_seen>>


-----------------------------------------------------------------------------
(* Phase 1: contexts *)

\* dict[key] = value on an insertion-ordered dict kept as a list of items:
\* an existing key keeps its place
DictSet(d, key, value) ==
    IF \E k \in 1..Len(d) : d[k].key = key
    THEN [k \in 1..Len(d) |-> IF d[k].key = key THEN [key |-> key, value |-> value]
                                                  ELSE d[k]]
    ELSE Append(d, [key |-> key, value |-> value])

\* the dataclass ContextRow with its defaults
ContextRow(session_id, bar, session_type, ts) ==
    [session_id |-> session_id, bar |-> bar, session_type |-> session_type,
     ts |-> ts, phase |-> None, zone_id_snapshot |-> None,
     zone_type_snapshot |-> None, aggression |-> None, facilitation |-> None,
     market_state |-> None, raw_state |-> None, snapshot_message |-> None,
     context_complete |-> FALSE, _source_rows |-> 0, _has_snapshot |-> FALSE,
     _has_lock |-> FALSE]

\* zone_id of a snapshot row: '-1' becomes None
SnapshotZoneId(row) == IF row.zone_id = "-1" THEN None ELSE row.zone_id

\* zone_type of a snapshot row: 'NONE' becomes None
SnapshotZoneType(row) == IF row.zone_type = "NONE" THEN None ELSE row.zone_type

\* raw_state of a lock row: message[4:] when the message starts with 'raw:'
LockRawState(row) ==
    IF StartsWithRaw(row.message) THEN AfterRaw(row.message) ELSE None

_create_context_from_snapshot(row) ==
    [ContextRow(row.session_id, row.bar, row.session_type, row.ts) EXCEPT
        !.phase = PyOr(row.phase, None),
        !.zone_id_snapshot = SnapshotZoneId(row),
        !.zone_type_snapshot = SnapshotZoneType(row),
        !.snapshot_message = PyOr(row.message, None),
        !._source_rows = 1,
        !._has_snapshot = TRUE]

_create_context_from_lock(row) ==
    [ContextRow(row.session_id, row.bar, row.session_type, row.ts) EXCEPT
        !.aggression = PyOr(row.aggression, None),
        !.facilitation = PyOr(row.facilitation, None),
        !.market_state = PyOr(row.market_state, None),
        !.raw_state = LockRawState(row),
        !._source_rows = 1,
        !._has_lock = TRUE]

\* mutant: the session types are not compared
IdentityConflictNever(ctx, row) == FALSE

\* the identity check of both _merge_*_into_context methods
IdentityConflict(ctx, row) == ctx.session_type # row.session_type

IdentityConflictError(ctx, row) ==
    Error("IDENTITY_CONFLICT", "FATAL", ctx.session_id, ctx.bar, None,
          "session_type", <<ctx.session_type>>, <<row.session_type>>)

\* both methods return the pipeline object and the accumulator
_merge_snapshot_into_context(obj, ctx, row) ==
    IF IdentityConflict(ctx, row)
    THEN [obj |-> add_error(obj, IdentityConflictError(ctx, row)), ctx |-> ctx]
    ELSE [obj |-> obj,
          ctx |-> [ctx EXCEPT
                     !.phase = PyOr(row.phase, @),
                     !.zone_id_snapshot = PyOr(SnapshotZoneId(row), @),
                     !.zone_type_snapshot = PyOr(SnapshotZoneType(row), @),
                     !.snapshot_message = PyOr(row.message, @),
                     !._source_rows = @ + 1,
                     !._has_snapshot = TRUE]]

\* mutant: the phase of a lock row is taken into the context
_merge_lock_with_phase(obj, ctx, row) ==
    IF IdentityConflict(ctx, row)
    THEN [obj |-> add_error(obj, IdentityConflictError(ctx, row)), ctx |-> ctx]
    ELSE [obj |-> obj,
          ctx |-> [ctx EXCEPT
                     !.phase = PyOr(row.phase, @),
                     !.aggression = PyOr(row.aggression, @),
                     !.facilitation = PyOr(row.facilitation, @),
                     !.market_state = PyOr(row.market_state, @),
                     !.raw_state = PyOr(LockRawState(row), @),
                     !._source_rows = @ + 1,
                     !._has_lock = TRUE]]

_merge_lock_into_context(obj, ctx, row) ==
    IF IdentityConflict(ctx, row)
    THEN [obj |-> add_error(obj, IdentityConflictError(ctx, row)), ctx |-> ctx]
    ELSE [obj |-> obj,
          ctx |-> [ctx EXCEPT
                     !.aggression = PyOr(row.aggression, @),
                     !.facilitation = PyOr(row.facilitation, @),
                     !.market_state = PyOr(row.market_state, @),
                     !.raw_state = PyOr(LockRawState(row), @),
                     !._source_rows = @ + 1,
                     !._has_lock = TRUE]]

\* mutant: one contribution is enough for a complete context
ContextCompleteEither(ctx) == ctx._has_snapshot \/ ctx._has_lock

\* ctx._has_snapshot and ctx._has_lock
ContextComplete(ctx) == ctx._has_snapshot /\ ctx._has_lock

\* mutant: the finalized context is not counted in the summary
_finalize_context_uncounted(obj, ctx) ==
    IF ctx = <<>> THEN obj
    ELSE LET final == [ctx[1] EXCEPT !.context_complete = ContextComplete(ctx[1])]
         IN  [obj EXCEPT
                !.contexts = Append(@, final),
                !.context_by_session_bar =
                    DictSet(@, <<final.session_id, final.bar>>, final)]

\* ctx is <<>> (None) or <<ContextRow>>
_finalize_context(obj, ctx) ==
    IF ctx = <<>> THEN obj
    ELSE LET final == [ctx[1] EXCEPT !.context_complete = ContextComplete(ctx[1])]
         IN  [obj EXCEPT
                !.contexts = Append(@, final),
                !.context_by_session_bar =
                    DictSet(@, <<final.session_id, final.bar>>, final),
                !.summary.context_rows = @ + 1]

\* the loop of _lookup_context over the dict items from item k on, with the
\* best so far: best is <<>> or <<ContextRow>>
RECURSIVE LookupScan(_, _, _, _, _, _)
LookupScan(d, session_id, bar, k, best_bar, best) ==
    IF k > Len(d) THEN best
    ELSE IF /\ d[k].key[1] = session_id
            /\ PyInt(d[k].key[2]) <= bar
            /\ PyInt(d[k].key[2]) > best_bar
         THEN LookupScan(d, session_id, bar, k + 1, PyInt(d[k].key[2]), <<d[k].value>>)
    ELSE LookupScan(d, session_id, bar, k + 1, best_bar, best)

\* best_bar starts at -1
_lookup_context(obj, session_id, bar) ==
    LookupScan(obj.context_by_session_bar, session_id, bar, 1, -1, <<>>)


-----------------------------------------------------------------------------
(* Phase 1: engagements *)

\* the dataclass EngagementRow with its defaults; context_stale is <<>>
\* (None) or <<bool>>
EngagementRow(row) ==
    [session_id |-> row.session_id, bar |-> row.bar, ts |-> row.ts,
     session_type |-> row.session_type, zone_id |-> row.zone_id,
     zone_type |-> row.zone_type, entry_price |-> row.entry_price,
     exit_price |-> row.exit_price, bars |-> row.bars, outcome |-> row.outcome,
     escape_vel |-> row.escape_vel, vol_ratio |-> row.vol_ratio,
     context_bar |-> None, context_stale |-> <<>>, ctx_aggression |-> None,
     ctx_facilitation |-> None, ctx_market_state |-> None, ctx_phase |-> None,
     orphan |-> FALSE, _flags |-> <<>>]

\* (session_id, bar, zone_id)
EngKey(row) == <<row.session_id, row.bar, row.zone_id>>

\* `float(price) == 0` inside try/except ValueError: a text that does not
\* parse passes
PriceIsZero(text) == ~FloatRaises(text) /\ FloatIsZero(text)

\* mutant: the threshold itself counts as stale
IsStaleInclusive(bar, context_bar) ==
    PyInt(bar) - PyInt(context_bar) >= STALENESS_THRESHOLD

\* bar_delta > STALENESS_THRESHOLD
IsStale(bar, context_bar) == PyInt(bar) - PyInt(context_bar) > STALENESS_THRESHOLD

\* mutant: an engagement without context is left unmarked
AttachContextUnmarked(eng, context) ==
    IF context = <<>> THEN eng
    ELSE [eng EXCEPT !.context_bar = context[1].bar,
                     !.context_stale = <<IsStale(eng.bar, context[1].bar)>>]

\* mutant: the completeness of the context is not looked at
IsPartialContextNever(ctx) == FALSE

\* `not context.context_complete`
IsPartialContext(ctx) == ~ctx.context_complete

\* the engagement with the context found by the lookup attached
AttachContext(eng, context) ==
    IF context = <<>>
    THEN [eng EXCEPT !.orphan = TRUE, !._flags = Append(@, "ORPHAN")]
    ELSE LET stale == IsStale(eng.bar, context[1].bar)
         IN  [eng EXCEPT
                !.context_bar = context[1].bar,
                !.ctx_aggression = context[1].aggression,
                !.ctx_facilitation = context[1].facilitation,
                !.ctx_market_state = context[1].market_state,
                !.ctx_phase = context[1].phase,
                !.context_stale = <<stale>>,
                !._flags = (IF stale THEN <<"STALE_CONTEXT">> ELSE <<>>)
                           \o (IF IsPartialContext(context[1])
                               THEN <<"PARTIAL_CONTEXT">> ELSE <<>>)]

\* the RECOVERABLE error of a dropped engagement row
EngagementError(error_type, row, column_name, value_a) ==
    Error(error_type, "RECOVERABLE", row.session_id, row.bar, None, column_name,
          value_a, <<>>)

\* mutant: the triple is never taken as seen
NeverDuplicateEngagement(obj, row) == FALSE

\* eng_key in self.seen_engagements
IsDuplicateEngagement(obj, row) == EngKey(row) \in obj.seen_engagements

_process_engagement(obj, row) ==
    IF IsDuplicateEngagement(obj, row)
    THEN add_error(obj, EngagementError("DUPLICATE_ENGAGEMENT", row, None,
                                        <<"zone_id", row.zone_id>>))
    ELSE LET seen == [obj EXCEPT !.seen_engagements = @ \cup {EngKey(row)}]
         IN  IF PriceIsZero(row.entry_price)
             THEN add_error(seen, EngagementError("INVALID_ENGAGEMENT_PRICE", row,
                                                  "entry_price", <<>>))
             ELSE IF PriceIsZero(row.exit_price)
             THEN add_error(seen, EngagementError("INVALID_ENGAGEMENT_PRICE", row,
                                                  "exit_price", <<>>))
             ELSE IF row.outcome \notin VALID_OUTCOMES
             THEN add_error(seen, EngagementError("INVALID_OUTCOME", row, "outcome",
                                                  <<row.outcome>>))
             ELSE [seen EXCEPT
                     !.engagements =
                         Append(@, AttachContext(EngagementRow(row),
                                    _lookup_context(seen, row.session_id,
                                                    PyInt(row.bar)))),
                     !.summary.engagement_rows = @ + 1]

-----------------------------------------------------------------------------
(* Phase 1: _merge, one action per iteration of the for loop *)

\* key = (session_id, bar)
RowKey(row) == <<row.session_id, row.bar>>

\* the rest of _merge must not move
MergeFrame == UNCHANGED <<fieldnames, input, rows, written, exit_code>>

\* mutant: the duplicate is recorded and the loop goes on to the next row
HaltMergeAtNextRow(error) ==
    /\ self' = add_error(self, error)
    /\ i' = i + 1
    /\ UNCHANGED <<pc, current_context, current_session_bar, snapshot_seen,
                   lock_seen>>

\* `return` out of _merge after a duplicate context event: the open
\* accumulator is not finalized, run() goes on to _write_outputs
HaltMerge(error) ==
    /\ self' = add_error(self, error)
    /\ pc' = "write"
    /\ UNCHANGED <<i, current_context, current_session_bar, snapshot_seen,
                   lock_seen>>

\* mutant: the key is never taken as seen
NeverDuplicateContext(key, seen) == FALSE

\* `key in snapshot_seen`, `key in lock_seen`
IsDuplicateContext(key, seen) == key \in seen

DuplicateContextError(error_type, row) ==
    Error(error_type, "FATAL", row.session_id, row.bar, row.event_type, None,
          <<>>, <<>>)

MergeSnapshot ==
    /\ pc = "merge" /\ i <= Len(rows)
    /\ rows[i].event_type = "PHASE_SNAPSHOT"
    /\ LET row == rows[i]
           key == RowKey(row)
       IN  IF IsDuplicateContext(key, snapshot_seen)
           THEN HaltMerge(DuplicateContextError("DUPLICATE_CONTEXT_SNAPSHOT", row))
           ELSE /\ snapshot_seen' = snapshot_seen \cup {key}
                /\ IF current_session_bar # key
                   THEN /\ self' = _finalize_context(self, current_context)
                        /\ current_context' = <<_create_context_from_snapshot(row)>>
                        /\ current_session_bar' = key
                   ELSE LET merged == _merge_snapshot_into_context(
                                          self, current_context[1], row)
                        IN  /\ self' = merged.obj
                            /\ current_context' = <<merged.ctx>>
                            /\ UNCHANGED current_session_bar
                /\ i' = i + 1
                /\ UNCHANGED <<pc, lock_seen>>
    /\ MergeFrame

MergeLock ==
    /\ pc = "merge" /\ i <= Len(rows)
    /\ rows[i].event_type = "MODE_LOCK"
    /\ LET row == rows[i]
           key == RowKey(row)
       IN  IF IsDuplicateContext(key, lock_seen)
           THEN HaltMerge(DuplicateContextError("DUPLICATE_CONTEXT_LOCK", row))
           ELSE /\ lock_seen' = lock_seen \cup {key}
                /\ IF current_session_bar # key
                   THEN /\ self' = _finalize_context(self, current_context)
                        /\ current_context' = <<_create_context_from_lock(row)>>
                        /\ current_session_bar' = key
                   ELSE LET merged == _merge_lock_into_context(
                                          self, current_context[1], row)
                        IN  /\ self' = merged.obj
                            /\ current_context' = <<merged.ctx>>
                            /\ UNCHANGED current_session_bar
                /\ i' = i + 1
                /\ UNCHANGED <<pc, snapshot_seen>>
    /\ MergeFrame

\* both branches before _process_engagement finalize the open accumulator
\* and clear it; with no accumulator open nothing changes
MergeEngagement ==
    /\ pc = "merge" /\ i <= Len(rows)
    /\ rows[i].event_type = "ENGAGEMENT_FINAL"
    /\ IF current_session_bar = RowKey(rows[i]) \/ current_context # <<>>
       THEN /\ self' = _process_engagement(
                           _finalize_context(self, current_context), rows[i])
            /\ current_context' = <<>>
            /\ current_session_bar' = <<>>
       ELSE /\ self' = _process_engagement(self, rows[i])
            /\ UNCHANGED <<current_context, current_session_bar>>
    /\ i' = i + 1
    /\ UNCHANGED <<pc, snapshot_seen, lock_seen>>
    /\ MergeFrame

\* a row of any other event type is passed over
MergeOther ==
    /\ pc = "merge" /\ i <= Len(rows)
    /\ rows[i].event_type \notin {"PHASE_SNAPSHOT", "MODE_LOCK", "ENGAGEMENT_FINAL"}
    /\ i' = i + 1
    /\ UNCHANGED <<pc, self, current_context, current_session_bar,
                   snapshot_seen, lock_seen>>
    /\ MergeFrame

\* the loop is over: finalize the last context; _merge returns
MergeEnd ==
    /\ pc = "merge" /\ i > Len(rows)
    /\ self' = _finalize_context(self, current_context)
    /\ pc' = "write"
    /\ UNCHANGED <<i, current_context, current_session_bar, snapshot_seen,
                   lock_seen>>
    /\ MergeFrame

\* mutant: the recoverable flag is tested before the fatal flag
MergeExitCodeRecoverableFirst(obj) ==
    IF obj.has_recoverable THEN 1 ELSE IF obj.has_fatal THEN 2 ELSE 0

\* the exit code run() determines after the merge
MergeExitCode(obj) ==
    IF obj.has_fatal THEN 2 ELSE IF obj.has_recoverable THEN 1 ELSE 0

\* run() after _merge: write the outputs, return the exit code
Finish ==
    /\ pc = "write"
    /\ WriteAndReturn(self, MergeExitCode(self))
    /\ UNCHANGED <<fieldnames, input, rows, i, current_context,
                   current_session_bar, snapshot_seen, lock_seen>>


-----------------------------------------------------------------------------
(* A second run on the same file *)

\* mutant: the engagement triples seen by the first run are kept
RestartPipelineKeepingSeen ==
    [NewPipeline EXCEPT !.seen_engagements = self.seen_engagements]

\* a new process constructs a new MergePipeline
RestartPipeline == NewPipeline

\* run() is entered again, on the file the first run read
Restart ==
    /\ pc = "done"
    /\ Len(written) = 1
    /\ pc' = "open"
    /\ rows' = <<>>
    /\ self' = RestartPipeline
    /\ i' = 1
    /\ current_context' = <<>>
    /\ current_session_bar' = <<>>
    /\ snapshot_seen' = {}
    /\ lock_seen' = {}
    /\ UNCHANGED <<fieldnames, input, written, exit_code>>

\* one iteration of `for row in reader` in the second run: the next line is
\* the line the first run read at this place
LoadRowAgain ==
    /\ pc = "load"
    /\ written # <<>>
    /\ self.summary.input_rows < Len(input)
    /\ ReadRow(input[self.summary.input_rows + 1])
    /\ UNCHANGED <<fieldnames, input, i, current_context, current_session_bar,
                   snapshot_seen, lock_seen>>

-----------------------------------------------------------------------------
(* Specifications *)

\* rows that take run() down each of its exits
ExitRows ==
    {Snapshot("A", "RTH", "09:05", "1", "P1", "m1"),
     Snapshot("A", "RTH", "09:05", "1", "P2", "m1"),
     Lock("A", "RTH", "09:05", "1", "RESPONSIVE", "raw:X"),
     Lock("A", "ETH", "09:05", "1", "RESPONSIVE", "raw:X"),
     Engagement("A", "09:05", "1", "3", "VPB_VAL", "6000", "6001", "5", "TEST"),
     Engagement("A", "09:05", "1", "3", "VPB_VAL", "6000", "6002", "7", "ACCEPT"),
     Engagement("A", "09:05", "1", "3", "VPB_VAH", "6000", "6001", "5", "TEST"),
     Engagement("A", "09:05", "1", "4", "VPB_VAL", "0", "6001", "5", "TEST"),
     Engagement("A", "09:00", "2", "4", "VPB_VAL", "6000", "6001", "5", "BAD"),
     Snapshot("", "RTH", "09:05", "1", "P1", "m1"),
     Snapshot("A", "RTH", "09:05", "x", "P1", "m1"),
     Row("A", "RTH", "09:05", "1", "OTHER", "", "", "", "", "", "", "", "", "")}

\* rows that exercise the context store and the lookup
MergeRows ==
    {Snapshot("A", "RTH", "09:05", "-1", "P0", "m0"),
     Snapshot("A", "RTH", "09:05", "1", "P1", "m1"),
     Snapshot("A", "RTH", "09:05", "1", "P2", "m1"),
     Snapshot("A", "RTH", "09:05", "01", "P3", "m1"),
     Snapshot("A", "RTH", "09:05", "2", "P4", "m1"),
     Lock("A", "RTH", "09:05", "1", "RESPONSIVE", "raw:X"),
     Lock("A", "RTH", "09:05", "1", "INITIATIVE", "raw:Y"),
     Engagement("A", "09:05", "1", "3", "VPB_VAL", "6000", "6001", "5", "TEST"),
     Engagement("A", "09:05", "1", "3", "VPB_VAL", "6000", "6002", "7", "ACCEPT"),
     Engagement("A", "09:05", "1", "3", "VPB_VAL", "0", "6001", "5", "TEST"),
     Engagement("A", "09:05", "52", "3", "VPB_VAL", "6000", "6001", "5", "TEST"),
     Engagement("B", "09:05", "1", "3", "VPB_VAL", "6000", "6001", "5", "TEST"),
     Row("A", "RTH", "09:05", "1", "OTHER", "", "", "", "", "", "", "", "", "")}

\* rows that exercise the checks of _process_engagement
EngagementRows ==
    {Snapshot("A", "RTH", "09:05", "1", "P1", "m1"),
     Lock("A", "RTH", "09:05", "1", "RESPONSIVE", "raw:X"),
     Engagement("A", "09:05", "1", "3", "VPB_VAL", "6000", "6001", "5", "TEST"),
     Engagement("A", "09:05", "1", "3", "VPB_VAL", "6000", "6002", "7", "ACCEPT"),
     Engagement("A", "09:05", "1", "3", "VPB_VAL", "0", "6001", "5", "TEST"),
     Engagement("A", "09:05", "1", "4", "VPB_VAL", "abc", "6001", "5", "TEST"),
     Engagement("A", "09:05", "1", "4", "VPB_VAL", "6000", "", "5", "TEST"),
     Engagement("A", "09:05", "1", "5", "VPB_VAL", "6000", "0.0", "5", "BAD"),
     Engagement("A", "09:05", "1", "5", "VPB_VAL", "6000", "6001", "5", "BAD"),
     Row("A", "RTH", "09:05", "1", "OTHER", "", "", "", "", "", "", "", "", "")}

\* rows that exercise _deduplicate: rows that differ in one column, and a
\* line with one cell too many
DedupRows ==
    {Snapshot("A", "RTH", "09:05", "1", "P1", "m1"),
     Snapshot("A", "RTH", "09:05", "1", "P1", "m2"),
     Lock("A", "RTH", "09:05", "1", "RESPONSIVE", "raw:X"),
     Engagement("A", "09:05", "1", "3", "VPB_VAL", "6000", "6001", "5", "TEST"),
     Row("A", "RTH", "09:05", "1", "OTHER", "", "", "", "", "", "", "", "", ""),
     LongRow(Snapshot("A", "RTH", "09:05", "1", "P1", "m1"))}

\* rows that exercise _validate_sort_order: every component of the key,
\* two spellings of one bar, and a bar that is not an integer
SortRows ==
    {Snapshot("A", "RTH", "09:05", "1", "P1", "m1"),
     Snapshot("A", "RTH", "09:05", "01", "P3", "m1"),
     Lock("A", "RTH", "09:05", "1", "RESPONSIVE", "raw:X"),
     Engagement("A", "09:05", "1", "3", "VPB_VAL", "6000", "6001", "5", "TEST"),
     Row("A", "RTH", "09:05", "1", "OTHER", "", "", "", "", "", "", "", "", ""),
     Snapshot("A", "RTH", "09:05", "2", "P4", "m1"),
     Snapshot("B", "RTH", "09:05", "1", "P1", "m1"),
     Snapshot("A", "RTH", "09:05", "x", "P1", "m1")}

\* rows that exercise _validate_timestamps: several rows at one bar with
\* different timestamps, and timestamps whose lexical order is not their
\* order in time
TimestampRows ==
    {Snapshot("A", "RTH", "09:05", "1", "P1", "m1"),
     Snapshot("A", "RTH", "10:00", "1", "P2", "m1"),
     Lock("A", "RTH", "09:05", "1", "RESPONSIVE", "raw:X"),
     Engagement("A", "09:05", "1", "3", "VPB_VAL", "6000", "6001", "5", "TEST"),
     Row("A", "RTH", "09:05", "1", "OTHER", "", "", "", "", "", "", "", "", ""),
     Snapshot("A", "RTH", "09:05", "2", "P4", "m1"),
     Snapshot("A", "RTH", "09:00", "2", "P5", "m1"),
     Snapshot("A", "RTH", "9:00", "2", "P6", "m1"),
     Lock("A", "RTH", "09:00", "2", "RESPONSIVE", "raw:X"),
     Snapshot("B", "RTH", "09:00", "1", "P1", "m1")}

\* rows that exercise _validate_zone_consistency: one zone with two zone
\* types, in one session and in two, and the same under the zone ids '' and
\* '-1'
ZoneRows ==
    {Snapshot("A", "RTH", "09:05", "1", "P1", "m1"),
     Lock("A", "RTH", "09:05", "1", "RESPONSIVE", "raw:X"),
     Row("A", "RTH", "09:05", "1", "OTHER", "", "", "", "", "", "", "", "", ""),
     Engagement("A", "09:05", "1", "3", "VPB_VAL", "6000", "6001", "5", "TEST"),
     Engagement("A", "09:05", "2", "3", "VPB_VAH", "6000", "6001", "5", "TEST"),
     Engagement("A", "09:05", "1", "", "VPB_VAL", "6000", "6001", "5", "TEST"),
     Engagement("A", "09:05", "2", "", "VPB_VAH", "6000", "6001", "5", "TEST"),
     Engagement("A", "09:05", "1", "-1", "VPB_VAL", "6000", "6001", "5", "TEST"),
     Engagement("A", "09:05", "2", "-1", "VPB_VAH", "6000", "6001", "5", "TEST"),
     Engagement("B", "09:05", "1", "3", "VPB_VAH", "6000", "6001", "5", "TEST")}

\* rows for two runs on one file: contexts under two spellings of a bar,
\* engagements with and without context, a duplicate triple
RerunRows ==
    {Snapshot("A", "RTH", "09:05", "1", "P1", "m1"),
     Snapshot("A", "RTH", "09:05", "01", "P3", "m1"),
     Lock("A", "RTH", "09:05", "1", "RESPONSIVE", "raw:X"),
     Engagement("A", "09:05", "1", "3", "VPB_VAL", "6000", "6001", "5", "TEST"),
     Engagement("A", "09:05", "1", "3", "VPB_VAL", "6000", "6002", "7", "ACCEPT"),
     Engagement("A", "09:05", "52", "3", "VPB_VAL", "6000", "6001", "5", "TEST"),
     Engagement("B", "09:05", "1", "3", "VPB_VAL", "0", "6001", "5", "TEST"),
     Row("A", "RTH", "09:05", "1", "OTHER", "", "", "", "", "", "", "", "", "")}

\* rows that exercise the identity check: locks whose session_type differs
\* from the snapshot's at two keys, a lock that agrees, a snapshot row that
\* carries an aggression, lock rows that carry a phase and a zone, a lock
\* with a timestamp of its own
IdentityRows ==
    {Snapshot("A", "RTH", "09:05", "1", "P1", "m1"),
     [Snapshot("A", "RTH", "09:05", "2", "P4", "m2") EXCEPT
         !.aggression = "INITIATIVE"],
     Lock("A", "ETH", "09:05", "1", "RESPONSIVE", "raw:X"),
     Lock("A", "RTH", "10:00", "1", "INITIATIVE", "raw:Y"),
     Lock("A", "ETH", "09:05", "2", "RESPONSIVE", "raw:X"),
     Engagement("A", "09:05", "1", "3", "VPB_VAL", "6000", "6001", "5", "TEST"),
     Engagement("A", "09:05", "2", "3", "VPB_VAL", "6000", "6001", "5", "BAD"),
     Row("A", "RTH", "09:05", "1", "OTHER", "", "", "", "", "", "", "", "", "")}

\* rows that fail in several phases at once: identity columns empty alone
\* and in pairs, a timestamp that goes back, one zone with two zone types, a
\* zero price
PhaseRows ==
    {Snapshot("A", "RTH", "09:05", "1", "P1", "m1"),
     Snapshot("A", "RTH", "09:00", "2", "P4", "m1"),
     Lock("A", "RTH", "09:05", "1", "RESPONSIVE", "raw:X"),
     Engagement("A", "09:05", "1", "3", "VPB_VAL", "6000", "6001", "5", "TEST"),
     Engagement("A", "09:05", "2", "3", "VPB_VAH", "0", "6001", "5", "TEST"),
     Row("A", "RTH", "09:05", "1", "OTHER", "", "", "", "", "", "", "", "", ""),
     Snapshot("", "RTH", "", "1", "P1", "m1"),
     Snapshot("A", "RTH", " ", "", "P1", "m1"),
     Snapshot("A", "RTH", "", "1", "P1", "m1")}

\* run() is entered on a fresh pipeline object
Start ==
    /\ input = <<>>
    /\ rows = <<>>
    /\ pc = "open"
    /\ self = NewPipeline
    /\ i = 1
    /\ current_context = <<>>
    /\ current_session_bar = <<>>
    /\ snapshot_seen = {}
    /\ lock_seen = {}
    /\ written = <<>>
    /\ exit_code = -1

Init == fieldnames \in Headers /\ Start

InitMerge == fieldnames = FULL_HEADERS /\ Start

\* every step of run() but the reading of a row
Pipeline ==
    \/ OpenInput
    \/ LoadEOF
    \/ Deduplicate
    \/ ValidateSortOrder
    \/ ValidateTimestamps
    \/ ValidateZoneConsistency
    \/ MergeSnapshot
    \/ MergeLock
    \/ MergeEngagement
    \/ MergeOther
    \/ MergeEnd
    \/ Finish

Next == (\E row \in ExitRows : LoadRow(row)) \/ Pipeline

NextMerge == (\E row \in MergeRows : LoadRow(row)) \/ Pipeline

NextEngagement == (\E row \in EngagementRows : LoadRow(row)) \/ Pipeline

NextDedup == (\E row \in DedupRows : LoadRow(row)) \/ Pipeline

NextSort == (\E row \in SortRows : LoadRow(row)) \/ Pipeline

NextTimestamps == (\E row \in TimestampRows : LoadRow(row)) \/ Pipeline

NextZones == (\E row \in ZoneRows : LoadRow(row)) \/ Pipeline

NextRerun ==
    \/ \E row \in RerunRows : LoadRow(row)
    \/ Pipeline
    \/ Restart
    \/ LoadRowAgain

NextIdentity == (\E row \in IdentityRows : LoadRow(row)) \/ Pipeline

NextPhases == (\E row \in PhaseRows : LoadRow(row)) \/ Pipeline

Spec == Init /\ [][Next]_vars

SpecMerge == InitMerge /\ [][NextMerge]_vars

SpecEngagement == InitMerge /\ [][NextEngagement]_vars

SpecDedup == InitMerge /\ [][NextDedup]_vars

SpecSort == InitMerge /\ [][NextSort]_vars

SpecTimestamps == InitMerge /\ [][NextTimestamps]_vars

SpecZones == InitMerge /\ [][NextZones]_vars

SpecRerun == InitMerge /\ [][NextRerun]_vars

SpecIdentity == InitMerge /\ [][NextIdentity]_vars

SpecPhases == Init /\ [][NextPhases]_vars


-----------------------------------------------------------------------------
(* Properties: the exit code of run() *)

\* run() has returned
Done == pc = "done"

\* an error of the type is in self.errors
Recorded(error_type) ==
    \E k \in 1..Len(self.errors) : self.errors[k].error_type = error_type

\* an error of the severity is in self.errors
RecordedSeverity(severity) ==
    \E k \in 1..Len(self.errors) : self.errors[k].severity = severity

\* C2: run() returns 0 exactly when no error of either severity was
\* recorded, and returns 1 exactly when no FATAL error and at least one
\* RECOVERABLE error was recorded.
C2_ExitZeroAndOne ==
    Done =>
        /\ (exit_code = 0) <=> (self.errors = <<>>)
        /\ (exit_code = 1) <=>
               (~RecordedSeverity("FATAL") /\ RecordedSeverity("RECOVERABLE"))

\* a run that returned 1 with a recoverable error on record
C2_Witness ==
    /\ Done
    /\ exit_code = 1
    /\ Recorded("INVALID_ENGAGEMENT_PRICE")

FatalExitTwoTypes ==
    {"MISSING_IDENTITY", "TIMESTAMP_INVERSION", "ZONE_TYPE_INCONSISTENCY",
     "DUPLICATE_CONTEXT_SNAPSHOT", "DUPLICATE_CONTEXT_LOCK", "IDENTITY_CONFLICT",
     "INTERNAL_ERROR"}

\* C3: a run in which a FATAL error of type MISSING_IDENTITY,
\* TIMESTAMP_INVERSION, ZONE_TYPE_INCONSISTENCY, DUPLICATE_CONTEXT_SNAPSHOT,
\* DUPLICATE_CONTEXT_LOCK, IDENTITY_CONFLICT or INTERNAL_ERROR is recorded
\* returns 2, whether or not RECOVERABLE errors were recorded too.
C3_FatalExitsTwo ==
    Done =>
        \A k \in 1..Len(self.errors) :
            (self.errors[k].error_type \in FatalExitTwoTypes
             /\ self.errors[k].severity = "FATAL") => exit_code = 2

\* a fatal error of the merge next to a recoverable error
C3_Witness ==
    /\ Done
    /\ exit_code = 2
    /\ Recorded("IDENTITY_CONFLICT")
    /\ RecordedSeverity("RECOVERABLE")

\* C4: run() returns 3 whenever UNSORTED_INPUT is recorded, and never
\* returns 3 in a run where no UNSORTED_INPUT was recorded.
C4_ExitThreeIffUnsorted ==
    Done => ((exit_code = 3) <=> Recorded("UNSORTED_INPUT"))

C4_Witness ==
    /\ Done
    /\ exit_code = 3
    /\ Recorded("UNSORTED_INPUT")

\* C5: when a required column is absent from the header, the loader records
\* FATAL MISSING_COLUMNS without reading any row and the run exits with 3.
C5_MissingColumnsExitsThree ==
    (Done /\ REQUIRED_COLUMNS \ fieldnames # {} /\ fieldnames # {}) =>
        /\ Recorded("MISSING_COLUMNS")
        /\ input = <<>>
        /\ exit_code = 3

\* C6: every execution of run() that returns has written the four artifacts
\* before returning, and they hold the contexts, engagements and errors
\* accumulated up to the halt.
C6_OutputsWritten ==
    exit_code # -1 =>
        /\ Done
        /\ written # <<>>
        /\ written[1].context =
               [k \in 1..Len(self.contexts) |-> ContextToDict(self.contexts[k])]
        /\ written[1].engagement =
               [k \in 1..Len(self.engagements) |->
                   EngagementToDict(self.engagements[k])]
        /\ Len(written[1].error) = Len(self.errors)
        /\ \A k \in 1..Len(self.errors) :
               written[1].error[k].error_type = self.errors[k].error_type
        /\ written[1].summary.error_count = Len(self.errors)

\* the caught exception: INTERNAL_ERROR is in error.csv
C6_Witness ==
    /\ Done
    /\ written # <<>>
    /\ \E k \in 1..Len(written[1].error) :
           written[1].error[k].error_type = "INTERNAL_ERROR"


-----------------------------------------------------------------------------
(* Properties: the merge engine *)

ContextEvents == {"PHASE_SNAPSHOT", "MODE_LOCK"}

SetMax(S) == CHOOSE m \in S : \A x \in S : x <= m

SetMin(S) == CHOOSE m \in S : \A x \in S : m <= x

\* the rows of engagement.csv and of context.csv once run() has returned
Emitted == IF written = <<>> THEN <<>> ELSE written[1].engagement

EmittedContexts == IF written = <<>> THEN <<>> ELSE written[1].context

\* the bars of the context rows of the session in the input, up to bar
ContextBarsUpTo(session_id, bar) ==
    {PyInt(input[j].bar) : j \in
        {m \in 1..Len(input) :
            /\ input[m].event_type \in ContextEvents
            /\ input[m].session_id = session_id
            /\ PyInt(input[m].bar) <= bar}}

\* C1: for every admitted engagement of session s at a non-negative bar b:
\* if a PHASE_SNAPSHOT or MODE_LOCK row of s with bar <= b is in the input,
\* the engagement is not orphan and context_bar is the greatest such bar;
\* the attached context is never from a bar greater than b.
C1_NearestContext ==
    Done =>
        \A k \in 1..Len(Emitted) :
            LET eng == Emitted[k]
                bars == ContextBarsUpTo(eng.session_id, PyInt(eng.bar))
            IN  /\ (PyInt(eng.bar) >= 0 /\ bars # {}) =>
                       /\ eng.orphan = "FALSE"
                       /\ eng.context_bar # ""
                       /\ PyInt(eng.context_bar) = SetMax(bars)
                /\ eng.context_bar # "" => PyInt(eng.context_bar) \in bars

\* a fatal error that keeps the merge engine from running
PreValidationTypes ==
    {"MISSING_COLUMNS", "MISSING_IDENTITY", "UNSORTED_INPUT",
     "TIMESTAMP_INVERSION", "ZONE_TYPE_INCONSISTENCY", "INTERNAL_ERROR"}

\* run() has returned and the merge engine ran
MergeRan ==
    /\ Done
    /\ \A k \in 1..Len(self.errors) :
           self.errors[k].error_type \notin PreValidationTypes

\* two rows of the event type at one (session_id, bar) key in the sequence
TwoAtOneKey(rs, event_type) ==
    \E j, k \in 1..Len(rs) :
        /\ j < k
        /\ rs[j].event_type = event_type
        /\ rs[k].event_type = event_type
        /\ RowKey(rs[j]) = RowKey(rs[k])

RepeatedContextRows ==
    {k \in 1..Len(rows) :
        /\ rows[k].event_type \in ContextEvents
        /\ \E j \in 1..(k - 1) :
               /\ rows[j].event_type = rows[k].event_type
               /\ RowKey(rows[j]) = RowKey(rows[k])}

DuplicateContextType(event_type) ==
    IF event_type = "PHASE_SNAPSHOT" THEN "DUPLICATE_CONTEXT_SNAPSHOT"
    ELSE "DUPLICATE_CONTEXT_LOCK"

DuplicateContextErrors ==
    {k \in 1..Len(self.errors) :
        self.errors[k].error_type \in
            {"DUPLICATE_CONTEXT_SNAPSHOT", "DUPLICATE_CONTEXT_LOCK"}}

Processed == 1..(i - 1)

\* the row passes the price and outcome checks of _process_engagement
PassesValidation(row) ==
    /\ ~PriceIsZero(row.entry_price)
    /\ ~PriceIsZero(row.exit_price)
    /\ row.outcome \in VALID_OUTCOMES

\* the passed ENGAGEMENT_FINAL rows with the triple, and all such rows
EngagementGroup(triple) ==
    {k \in 1..Len(rows) :
        rows[k].event_type = "ENGAGEMENT_FINAL" /\ EngKey(rows[k]) = triple}

\* the admitted engagements with the triple
AdmittedWith(triple) ==
    {k \in 1..Len(self.engagements) :
        <<self.engagements[k].session_id, self.engagements[k].bar,
          self.engagements[k].zone_id>> = triple}

\* the DUPLICATE_ENGAGEMENT errors recorded for the triple
DuplicateEngagementErrors(triple) ==
    {k \in 1..Len(self.errors) :
        /\ self.errors[k].error_type = "DUPLICATE_ENGAGEMENT"
        /\ self.errors[k].severity = "RECOVERABLE"
        /\ self.errors[k].session_id = triple[1]
        /\ self.errors[k].bar = triple[2]
        /\ self.errors[k].value_a = <<"zone_id", triple[3]>>}

\* the columns of the row are those of the engagement, unchanged
SamePayload(eng, row) ==
    /\ eng.ts = row.ts
    /\ eng.session_type = row.session_type
    /\ eng.zone_type = row.zone_type
    /\ eng.entry_price = row.entry_price
    /\ eng.exit_price = row.exit_price
    /\ eng.bars = row.bars
    /\ eng.outcome = row.outcome
    /\ eng.escape_vel = row.escape_vel
    /\ eng.vol_ratio = row.vol_ratio

HasFlag(eng, flag) == \E k \in 1..Len(eng._flags) : eng._flags[k] = flag

\* C9: for every admitted non-orphan engagement, context_stale is TRUE if
\* and only if bar - context_bar > 50, and the flag STALE_CONTEXT is present
\* if and only if context_stale is TRUE.
C9_StaleStrictlyPastFifty ==
    Done =>
        \A k \in 1..Len(Emitted) :
            Emitted[k].orphan = "FALSE" =>
                /\ Emitted[k].context_stale \in {"TRUE", "FALSE"}
                /\ (Emitted[k].context_stale = "TRUE") <=>
                       (PyInt(Emitted[k].bar) - PyInt(Emitted[k].context_bar) > 50)
                /\ HasFlag(Emitted[k], "STALE_CONTEXT") <=>
                       (Emitted[k].context_stale = "TRUE")

\* an engagement exactly 50 bars past its context is not stale
C9_Witness ==
    /\ Done
    /\ \E k \in 1..Len(Emitted) :
           /\ Emitted[k].orphan = "FALSE"
           /\ PyInt(Emitted[k].bar) - PyInt(Emitted[k].context_bar) = 50
           /\ Emitted[k].context_stale = "FALSE"

RecoverableEngagementTypes ==
    {"DUPLICATE_ENGAGEMENT", "INVALID_ENGAGEMENT_PRICE", "INVALID_OUTCOME"}

\* C10: an admitted engagement whose session has no context at or before
\* its bar is emitted with orphan TRUE, flags exactly ORPHAN and empty
\* context_bar, context_stale and ctx_* cells; admitting it records no
\* error (each processed ENGAGEMENT_FINAL row is either admitted or the
\* subject of one recoverable engagement error), so a run without any
\* recorded error exits 0 even with orphans.
C10_OrphanWithoutContext ==
    /\ Done =>
           \A k \in 1..Len(Emitted) :
               ContextBarsUpTo(Emitted[k].session_id, PyInt(Emitted[k].bar)) = {} =>
                   /\ Emitted[k].orphan = "TRUE"
                   /\ Emitted[k]._flags = <<"ORPHAN">>
                   /\ Emitted[k].context_bar = ""
                   /\ Emitted[k].context_stale = ""
                   /\ Emitted[k].ctx_aggression = ""
                   /\ Emitted[k].ctx_facilitation = ""
                   /\ Emitted[k].ctx_market_state = ""
                   /\ Emitted[k].ctx_phase = ""
    /\ Cardinality({k \in Processed : rows[k].event_type = "ENGAGEMENT_FINAL"})
           = Len(self.engagements)
             + Cardinality({k \in 1..Len(self.errors) :
                   self.errors[k].error_type \in RecoverableEngagementTypes})
    /\ (Done /\ self.errors = <<>>) => exit_code = 0

\* the other session has a context, the engagement is orphan, the exit is 0
C10_Witness ==
    /\ Done
    /\ exit_code = 0
    /\ \E k \in 1..Len(Emitted) :
           /\ Emitted[k].orphan = "TRUE"
           /\ Emitted[k]._flags = <<"ORPHAN">>
           /\ \E c \in 1..Len(EmittedContexts) :
                  EmittedContexts[c].session_id # Emitted[k].session_id

-----------------------------------------------------------------------------
(* Properties: context completeness *)

\* The contributions to the context rows, read off the rows the merge loop
\* has passed: a context row of a new key opens a contribution record, a
\* context row of the open key is merged into it unless its session_type
\* differs, an engagement row closes it.
NoContributions == [open |-> <<>>, closed |-> <<>>]

Contribution(row) ==
    [key |-> RowKey(row), session_type |-> row.session_type,
     snapshot |-> row.event_type = "PHASE_SNAPSHOT",
     lock |-> row.event_type = "MODE_LOCK"]

Contribute(acc, row) ==
    IF row.event_type \in ContextEvents
    THEN IF acc.open # <<>> /\ acc.open[1].key = RowKey(row)
         THEN IF acc.open[1].session_type # row.session_type THEN acc
              ELSE [acc EXCEPT
                      !.open = <<[acc.open[1] EXCEPT
                          !.snapshot = @ \/ row.event_type = "PHASE_SNAPSHOT",
                          !.lock = @ \/ row.event_type = "MODE_LOCK"]>>]
         ELSE [open |-> <<Contribution(row)>>, closed |-> acc.closed \o acc.open]
    ELSE IF row.event_type = "ENGAGEMENT_FINAL"
    THEN [open |-> <<>>, closed |-> acc.closed \o acc.open]
    ELSE acc

RECURSIVE Contributions(_, _)
Contributions(rs, n) ==
    IF n = 0 THEN NoContributions ELSE Contribute(Contributions(rs, n - 1), rs[n])

\* the loop of _merge ran to its end and the last context was finalized
MergeEnded == pc \in {"write", "done"} /\ i > Len(rows) /\ ~Recorded("INTERNAL_ERROR")

\* the contributions to self.contexts, row by row of context.csv
ContributionsToContexts ==
    LET acc == Contributions(rows, i - 1)
    IN  IF MergeEnded THEN acc.closed \o acc.open ELSE acc.closed

\* C11: every context row has context_complete TRUE if and only if both a
\* PHASE_SNAPSHOT row and a MODE_LOCK row of its key were merged into it; a
\* context built from a snapshot only or a lock only, a lock rejected by
\* IDENTITY_CONFLICT included, has context_complete FALSE.
C11_CompleteIffBoth ==
    /\ Len(self.contexts) = Len(ContributionsToContexts)
    /\ \A k \in 1..Len(self.contexts) :
           /\ <<self.contexts[k].session_id, self.contexts[k].bar>>
                  = ContributionsToContexts[k].key
           /\ self.contexts[k].context_complete
                  = (ContributionsToContexts[k].snapshot
                     /\ ContributionsToContexts[k].lock)
    /\ Done => \A k \in 1..Len(EmittedContexts) :
           EmittedContexts[k].context_complete
               = BoolText(self.contexts[k].context_complete)

\* a context.csv with a complete row, made of a snapshot and a lock
C11_Witness ==
    /\ Done
    /\ \E k \in 1..Len(EmittedContexts) :
           /\ EmittedContexts[k].context_complete = "TRUE"
           /\ ContributionsToContexts[k].snapshot
           /\ ContributionsToContexts[k].lock

\* the rows of context.csv with the key the engagement is attached to
AttachedContextRows(eng) ==
    {c \in 1..Len(EmittedContexts) :
        /\ EmittedContexts[c].session_id = eng.session_id
        /\ EmittedContexts[c].bar = eng.context_bar}

\* C12: an admitted non-orphan engagement carries the flag PARTIAL_CONTEXT
\* if and only if the context row it is attached to has context_complete
\* FALSE in the final context.csv: the row of its key is there, and what the
\* lookup saw is what is emitted for that key.
C12_PartialIffIncomplete ==
    Done =>
        \A k \in 1..Len(Emitted) :
            Emitted[k].orphan = "FALSE" =>
                /\ AttachedContextRows(Emitted[k]) # {}
                /\ \A c \in AttachedContextRows(Emitted[k]) :
                       HasFlag(Emitted[k], "PARTIAL_CONTEXT")
                           <=> (EmittedContexts[c].context_complete = "FALSE")

\* an engagement attached to a snapshot-only context, flagged
C12_Witness ==
    /\ Done
    /\ \E k \in 1..Len(Emitted) :
           /\ Emitted[k].orphan = "FALSE"
           /\ HasFlag(Emitted[k], "PARTIAL_CONTEXT")
           /\ \E c \in AttachedContextRows(Emitted[k]) :
                  EmittedContexts[c].context_complete = "FALSE"

-----------------------------------------------------------------------------
(* Properties: engagement prices *)

\* the text parses as a number different from zero
NonzeroNumber(text) == ~FloatRaises(text) /\ ~FloatIsZero(text)

\* the INVALID_ENGAGEMENT_PRICE errors recorded for the row
PriceErrors(row) ==
    {k \in 1..Len(self.errors) :
        /\ self.errors[k].error_type = "INVALID_ENGAGEMENT_PRICE"
        /\ self.errors[k].severity = "RECOVERABLE"
        /\ self.errors[k].session_id = row.session_id
        /\ self.errors[k].bar = row.bar}

\* C13: an ENGAGEMENT_FINAL row is admitted only if entry_price and
\* exit_price both parse as numbers different from zero; the first row of a
\* triple in which a price is zero or does not parse is dropped with a
\* RECOVERABLE INVALID_ENGAGEMENT_PRICE, and the run goes on.
C13_PricesParseNonzero ==
    /\ \A k \in 1..Len(self.engagements) :
           /\ NonzeroNumber(self.engagements[k].entry_price)
           /\ NonzeroNumber(self.engagements[k].exit_price)
    /\ \A k \in Processed :
           (/\ rows[k].event_type = "ENGAGEMENT_FINAL"
            /\ k = SetMin(EngagementGroup(EngKey(rows[k])))
            /\ ~(NonzeroNumber(rows[k].entry_price)
                 /\ NonzeroNumber(rows[k].exit_price)))
           => (PriceErrors(rows[k]) # {} /\ AdmittedWith(EngKey(rows[k])) = {})

-----------------------------------------------------------------------------
(* Properties: the deduplicator *)

\* the rows of the sequence that differ from every row before them
FirstOccurrences(rs) ==
    {k \in 1..Len(rs) : \A j \in 1..(k - 1) : rs[j] # rs[k]}

\* the m-th smallest element of a set of numbers
Nth(S, m) == CHOOSE k \in S : Cardinality({j \in S : j <= k}) = m

\* the sequence is the first occurrences of rs, in the order of rs
IsFirstOccurrenceSubsequence(result, rs) ==
    /\ Len(result) = Cardinality(FirstOccurrences(rs))
    /\ \A m \in 1..Len(result) : result[m] = rs[Nth(FirstOccurrences(rs), m)]

\* C14: _deduplicate returns exactly the first occurrence of every distinct
\* row of the loaded rows, in their order, and records no FATAL error.
C14_DedupKeepsFirstOccurrences ==
    [][pc = "dedup" =>
          /\ pc' = "sort"
          /\ IsFirstOccurrenceSubsequence(rows', rows)
          /\ self'.summary.fatal_errors = self.summary.fatal_errors
          /\ self'.has_fatal = self.has_fatal]_vars

\* _deduplicate was called and has returned: the loader recorded no fatal
\* error and no row key raised
DedupReturned ==
    /\ pc \notin {"open", "load", "dedup"}
    /\ ~Recorded("MISSING_COLUMNS")
    /\ ~Recorded("MISSING_IDENTITY")
    /\ \A k \in 1..Len(input) : ~RowKeyRaises(input[k])

\* the number of rows of the input identical to the row
GroupSize(row) == Cardinality({k \in 1..Len(input) : input[k] = row})

\* the groups of identical rows of the input with two rows or more, each
\* named by its row
DuplicateGroups == {input[k] : k \in {j \in 1..Len(input) : GroupSize(input[j]) >= 2}}

DuplicateRowErrors ==
    {k \in 1..Len(self.errors) : self.errors[k].error_type = "DUPLICATE_ROW"}

\* what a DUPLICATE_ROW error shows of its group
GroupSignature(row) ==
    <<row.session_id, row.bar, row.event_type, <<"count", GroupSize(row)>> >>

ErrorSignature(error) ==
    <<error.session_id, error.bar, error.event_type, error.value_a>>

-----------------------------------------------------------------------------
(* Properties: the sort order validator *)

\* the rank of the claim: PHASE_SNAPSHOT 1, MODE_LOCK 2, ENGAGEMENT_FINAL 3,
\* any other type 99
ClaimedRank(event_type) ==
    IF event_type = "PHASE_SNAPSHOT" THEN 1
    ELSE IF event_type = "MODE_LOCK" THEN 2
    ELSE IF event_type = "ENGAGEMENT_FINAL" THEN 3
    ELSE 99

\* row a is not after row b under (session_id, integer bar, rank)
RowLeq(a, b) ==
    \/ StrLess(a.session_id, b.session_id)
    \/ /\ a.session_id = b.session_id
       /\ \/ PyInt(a.bar) < PyInt(b.bar)
          \/ /\ PyInt(a.bar) = PyInt(b.bar)
             /\ ClaimedRank(a.event_type) <= ClaimedRank(b.event_type)

\* the rows that are before their predecessor under the key
Inversions(rs) == {k \in 2..Len(rs) : ~RowLeq(rs[k - 1], rs[k])}

\* every bar of the sequence is an integer: the key is defined
BarsAreIntegers(rs) == \A k \in 1..Len(rs) : ~IntRaises(rs[k].bar)

\* _validate_sort_order was called on rows and has returned
SortValidated == DedupReturned /\ pc # "sort" /\ BarsAreIntegers(rows)

UnsortedErrors ==
    {k \in 1..Len(self.errors) : self.errors[k].error_type = "UNSORTED_INPUT"}

\* the merge loop has been entered
MergeEntered == pc \in {"merge", "write"} \/ i > 1 \/ self.contexts # <<>>
                   \/ self.engagements # <<>>

\* C17: the merge engine runs only on rows that are non-decreasing under
\* (session_id, integer bar, rank); for deduplicated rows with integer bars
\* and an adjacent inversion, exactly one FATAL UNSORTED_INPUT is recorded,
\* for the first inverting row, and the merge never runs.
C17_MergeOnlyOnSortedRows ==
    /\ MergeEntered => (BarsAreIntegers(rows) /\ Inversions(rows) = {})
    /\ SortValidated =>
           IF Inversions(rows) = {}
           THEN UnsortedErrors = {}
           ELSE LET first == rows[SetMin(Inversions(rows))]
                IN  /\ Cardinality(UnsortedErrors) = 1
                    /\ \A k \in UnsortedErrors :
                           /\ self.errors[k].severity = "FATAL"
                           /\ self.errors[k].session_id = first.session_id
                           /\ PyInt(self.errors[k].bar) = PyInt(first.bar)
                           /\ self.errors[k].event_type = first.event_type
                    /\ ~MergeEntered
                    /\ Done

\* a lock after an engagement of its bar: the rank alone is inverted, and
\* the error names the lock
C17_Witness ==
    /\ SortValidated
    /\ Len(rows) >= 3
    /\ SetMin(Inversions(rows) \cup {Len(rows) + 1}) = 3
    /\ rows[2].event_type = "ENGAGEMENT_FINAL"
    /\ rows[3].event_type = "MODE_LOCK"
    /\ \E k \in UnsortedErrors : self.errors[k].event_type = "MODE_LOCK"
    /\ ~MergeEntered

-----------------------------------------------------------------------------
(* Properties: the timestamp validator *)

\* _validate_timestamps was called, on sorted rows, and has returned
TimestampsValidated ==
    /\ SortValidated
    /\ Inversions(rows) = {}
    /\ pc # "ts"

\* a row of the session at a strictly later bar with a lexically smaller ts
TimestampGoesBack(earlier, later) ==
    /\ earlier.session_id = later.session_id
    /\ PyInt(later.bar) > PyInt(earlier.bar)
    /\ StrLess(later.ts, earlier.ts)

\* C18: when a row of a session at a strictly later bar has a ts lexically
\* less than the ts of a row of the session at an earlier bar, FATAL
\* TIMESTAMP_INVERSION is recorded and the merge does not run, whatever the
\* position of the row among the rows of its bar.
C18_EveryLaterRowChecked ==
    TimestampsValidated =>
        ((\E j, k \in 1..Len(rows) : TimestampGoesBack(rows[j], rows[k]))
         => (Recorded("TIMESTAMP_INVERSION") /\ ~MergeEntered))

-----------------------------------------------------------------------------
(* Properties: the zone consistency validator *)

\* _validate_zone_consistency was called and has returned
ZonesValidated ==
    /\ TimestampsValidated
    /\ ~Recorded("TIMESTAMP_INVERSION")
    /\ pc # "zone"

\* two ENGAGEMENT_FINAL rows of one session and one zone_id, the zone_id
\* not among the excluded ones, with different zone types
ZoneTypesDisagree(rs, excluded) ==
    \E j, k \in 1..Len(rs) :
        /\ rs[j].event_type = "ENGAGEMENT_FINAL"
        /\ rs[k].event_type = "ENGAGEMENT_FINAL"
        /\ rs[j].session_id = rs[k].session_id
        /\ rs[j].zone_id = rs[k].zone_id
        /\ rs[j].zone_id \notin excluded
        /\ rs[j].zone_type # rs[k].zone_type

ZoneErrors ==
    {k \in 1..Len(self.errors) :
        self.errors[k].error_type = "ZONE_TYPE_INCONSISTENCY"}

\* what the validator owes the rows when the zone ids in `excluded` are
\* the ones it does not look at
ZoneContract(excluded) ==
    /\ MergeEntered => ~ZoneTypesDisagree(input, excluded)
    /\ ZonesValidated =>
           IF ZoneTypesDisagree(input, excluded)
           THEN /\ Cardinality(ZoneErrors) = 1
                /\ \A k \in ZoneErrors : self.errors[k].severity = "FATAL"
                /\ ~MergeEntered
                /\ Done
                /\ exit_code = 2
                /\ EmittedContexts = <<>>
                /\ Emitted = <<>>
           ELSE ZoneErrors = {}

\* C19 as stated: in a run where the merge executes, all ENGAGEMENT_FINAL
\* rows that share (session_id, zone_id), zone_id other than "-1", carry one
\* zone_type; if two disagree, FATAL ZONE_TYPE_INCONSISTENCY is recorded
\* before the merge and no engagement or context is emitted.
C19_AsStated == ZoneContract({"-1"})

\* C19, amended: the same with the empty zone_id excluded like "-1": rows
\* without a zone_id are not compared.
C19_ZoneTypesAgree == ZoneContract({"-1", ""})

\* the conflict is in the last row, behind a context and an engagement
C19_Witness ==
    /\ ZonesValidated
    /\ Len(rows) = 3
    /\ rows[1].event_type = "PHASE_SNAPSHOT"
    /\ rows[2].event_type = "ENGAGEMENT_FINAL"
    /\ rows[3].event_type = "ENGAGEMENT_FINAL"
    /\ rows[2].zone_id = "3"
    /\ rows[3].zone_id = "3"
    /\ rows[2].zone_type # rows[3].zone_type
    /\ Cardinality(ZoneErrors) = 1
    /\ Done
    /\ EmittedContexts = <<>>
    /\ Emitted = <<>>

-----------------------------------------------------------------------------
(* Properties: determinism *)

\* the second run on the file returns
SecondRunReturns == pc' = "done" /\ Len(written') = 2

-----------------------------------------------------------------------------
(* Properties: summary.json *)

\* the files the last finished run left on disk
LastWritten == written[Len(written)]

\* C21: the exit_code field written to summary.json equals the exit code
\* returned by run() for the same run, on every path (clean,
\* recoverable-only, each pre-validation fatal halt, merge fatal halt,
\* internal exception).
C21_SummaryExitIsReturned ==
    Done => LastWritten.summary.exit_code = exit_code

-----------------------------------------------------------------------------
(* Properties: the halt of the merge on a duplicate context event *)

\* the merge returned on a duplicate context event and run() has returned;
\* rows[i] is then the offending row
HaltedOnDuplicateContext ==
    /\ Done
    /\ \/ Recorded("DUPLICATE_CONTEXT_SNAPSHOT")
       \/ Recorded("DUPLICATE_CONTEXT_LOCK")

\* context.csv has a row for the key of the input row
HasContextRow(row) ==
    \E k \in 1..Len(LastWritten.context) :
        /\ LastWritten.context[k].session_id = row.session_id
        /\ LastWritten.context[k].bar = row.bar

\* C22: when the merge halts on DUPLICATE_CONTEXT_SNAPSHOT or
\* DUPLICATE_CONTEXT_LOCK, every (session_id, bar) key that received a
\* snapshot or lock contribution from a row preceding the offending row has
\* a row in context.csv, and every engagement admitted before the halt is in
\* engagement.csv.
C22_HaltRetainsContexts ==
    HaltedOnDuplicateContext =>
        /\ \A k \in 1..(i - 1) :
              rows[k].event_type \in ContextEvents => HasContextRow(rows[k])
        /\ Len(LastWritten.engagement) = Len(self.engagements)
        /\ \A k \in 1..(i - 1) :
              (rows[k].event_type = "ENGAGEMENT_FINAL"
               /\ PassesValidation(rows[k])
               /\ \A j \in 1..(k - 1) :
                     rows[j].event_type = "ENGAGEMENT_FINAL"
                        => EngKey(rows[j]) # EngKey(rows[k]))
              => \E e \in 1..Len(LastWritten.engagement) :
                    SamePayload(LastWritten.engagement[e], rows[k])

\* a duplicate context error is in self.errors
DuplicateContextRecorded ==
    \/ Recorded("DUPLICATE_CONTEXT_SNAPSHOT")
    \/ Recorded("DUPLICATE_CONTEXT_LOCK")

\* the rows of the event type among the first n rows
RowsOfType(event_type, n) ==
    {k \in 1..n : rows[k].event_type = event_type}

\* the value of the column is unset or was given by a row of the event type
\* and the key among the first n rows
GivenBefore(n, event_type, key, column, value) ==
    \/ value = None
    \/ \E k \in RowsOfType(event_type, n) :
           RowKey(rows[k]) = key /\ rows[k][column] = value

\* C23: after a FATAL DUPLICATE_CONTEXT_SNAPSHOT or DUPLICATE_CONTEXT_LOCK is
\* recorded, no later input row is processed: the loop stays at the
\* offending row, the duplicate is the last error, every context and
\* engagement and every error of the merge comes from a row before the
\* offending row, and the offending row contributes nothing to any context.
C23_NothingAfterDuplicateContext ==
    DuplicateContextRecorded =>
        LET last == self.errors[Len(self.errors)]
            before == i - 1
        IN  /\ pc \in {"write", "done"}
            /\ i <= Len(rows)
            /\ last.error_type = DuplicateContextType(rows[i].event_type)
            /\ last.session_id = rows[i].session_id /\ last.bar = rows[i].bar
            /\ \A k \in 1..(Len(self.errors) - 1) :
                   self.errors[k].error_type
                       \in RecoverableEngagementTypes
                               \cup {"DUPLICATE_ROW", "IDENTITY_CONFLICT"}
            /\ Cardinality({k \in 1..Len(self.errors) :
                               self.errors[k].error_type
                                   \in RecoverableEngagementTypes})
                 + Len(self.engagements)
                   = Cardinality(RowsOfType("ENGAGEMENT_FINAL", before))
            /\ \A k \in 1..Len(self.engagements) :
                   \E j \in RowsOfType("ENGAGEMENT_FINAL", before) :
                       /\ EngKey(rows[j]) = <<self.engagements[k].session_id,
                                              self.engagements[k].bar,
                                              self.engagements[k].zone_id>>
                       /\ SamePayload(self.engagements[k], rows[j])
            /\ Len(self.contexts) = Len(Contributions(rows, before).closed)
            /\ \A k \in 1..Len(self.contexts) :
                   LET ctx == self.contexts[k]
                       key == <<ctx.session_id, ctx.bar>>
                   IN  /\ GivenBefore(before, "PHASE_SNAPSHOT", key, "phase",
                                      ctx.phase)
                       /\ GivenBefore(before, "MODE_LOCK", key, "aggression",
                                      ctx.aggression)
                       /\ ctx._source_rows <=
                              Cardinality({j \in 1..before :
                                  /\ rows[j].event_type \in ContextEvents
                                  /\ RowKey(rows[j]) = key})
            /\ Done =>
                   /\ LastWritten.context
                          = [k \in 1..Len(self.contexts) |->
                                ContextToDict(self.contexts[k])]
                   /\ Len(LastWritten.engagement) = Len(self.engagements)
                   /\ Len(LastWritten.error) = Len(self.errors)

\* the merge halted on a duplicate snapshot with a context written and an
\* engagement row left unread behind the offending row
C23_Witness ==
    /\ Done
    /\ Recorded("DUPLICATE_CONTEXT_SNAPSHOT")
    /\ i < Len(rows)
    /\ rows[Len(rows)].event_type = "ENGAGEMENT_FINAL"
    /\ LastWritten.context # <<>>
    /\ LastWritten.engagement = <<>>

-----------------------------------------------------------------------------
(* Properties: IDENTITY_CONFLICT *)

\* the context rows among the first n rows whose session_type differs from
\* that of the accumulator open at their key when they are read
ConflictRows(n) ==
    {k \in 1..n :
        LET acc == Contributions(rows, k - 1)
        IN  /\ rows[k].event_type \in ContextEvents
            /\ acc.open # <<>>
            /\ acc.open[1].key = RowKey(rows[k])
            /\ acc.open[1].session_type # rows[k].session_type}

IdentityConflictErrors ==
    {k \in 1..Len(self.errors) : self.errors[k].error_type = "IDENTITY_CONFLICT"}

\* C24: when a MODE_LOCK (or PHASE_SNAPSHOT) row's session_type differs from
\* the open accumulator's at the same key, a FATAL IDENTITY_CONFLICT is
\* recorded but the merge loop does not halt: one such error is recorded per
\* such row, the loop runs on to the end of the rows unless a duplicate
\* context event halts it, the rows behind the conflict give their contexts
\* and engagements, and the run exits with 2.
C24_IdentityConflictDoesNotHalt ==
    /\ pc \in {"merge", "write", "done"} /\ ~Recorded("INTERNAL_ERROR") =>
           /\ Cardinality(IdentityConflictErrors) = Cardinality(ConflictRows(i - 1))
           /\ \A k \in IdentityConflictErrors :
                  /\ self.errors[k].severity = "FATAL"
                  /\ \E j \in ConflictRows(i - 1) :
                         /\ self.errors[k].session_id = rows[j].session_id
                         /\ self.errors[k].bar = rows[j].bar
                         /\ self.errors[k].value_b = <<rows[j].session_type>>
    /\ (Done /\ Recorded("IDENTITY_CONFLICT")) =>
           /\ exit_code = 2
           /\ ~DuplicateContextRecorded =>
                  /\ i = Len(rows) + 1
                  /\ Len(LastWritten.context)
                         = Len(Contributions(rows, Len(rows)).closed)
                             + Len(Contributions(rows, Len(rows)).open)
                  /\ Len(LastWritten.engagement)
                         = Cardinality({k \in RowsOfType("ENGAGEMENT_FINAL", Len(rows)) :
                               /\ PassesValidation(rows[k])
                               /\ \A j \in RowsOfType("ENGAGEMENT_FINAL", k - 1) :
                                      EngKey(rows[j]) # EngKey(rows[k])})

\* two IDENTITY_CONFLICT errors in one run that wrote the contexts of both
\* keys
C24_Witness ==
    /\ Done
    /\ Cardinality(IdentityConflictErrors) = 2
    /\ Len(LastWritten.context) = 2
    /\ LastWritten.context[2].bar = "2"
    /\ exit_code = 2

-----------------------------------------------------------------------------
(* Properties: the order of the phases *)

\* the phase that records the error type: 1 loader, 2 deduplicator,
\* 3 sort-order, 4 timestamp, 5 zone-consistency, 6 merge
ErrorPhase(error_type) ==
    CASE error_type \in {"MISSING_COLUMNS", "MISSING_IDENTITY"} -> 1
      [] error_type = "DUPLICATE_ROW" -> 2
      [] error_type = "UNSORTED_INPUT" -> 3
      [] error_type = "TIMESTAMP_INVERSION" -> 4
      [] error_type = "ZONE_TYPE_INCONSISTENCY" -> 5
      [] OTHER -> 6

\* the FATAL errors of the loader and of the validators
PreValidationFatalTypes ==
    {"MISSING_COLUMNS", "MISSING_IDENTITY", "UNSORTED_INPUT",
     "TIMESTAMP_INVERSION", "ZONE_TYPE_INCONSISTENCY"}

\* an identity column of the row is empty
Defective(row) ==
    StripIsEmpty(row.session_id) \/ StripIsEmpty(row.bar) \/ StripIsEmpty(row.ts)

\* C25: phases run in the order loader, deduplicator, sort-order, timestamp,
\* zone-consistency, merge; a FATAL error in the loader or in a validator
\* aborts that phase and every later phase: it is the only FATAL error and
\* the last error of the run, no error of a later phase is recorded, and
\* context.csv and engagement.csv have no data rows; MISSING_IDENTITY names
\* the first defective row and its first empty column in the order
\* session_id, bar, ts.
C25_PreValidationFatalAborts ==
    /\ \A j, k \in 1..Len(self.errors) :
           (j < k /\ self.errors[j].error_type # "INTERNAL_ERROR"
                  /\ self.errors[k].error_type # "INTERNAL_ERROR")
               => ErrorPhase(self.errors[j].error_type)
                      <= ErrorPhase(self.errors[k].error_type)
    /\ \A k \in 1..Len(self.errors) :
           self.errors[k].error_type \in PreValidationFatalTypes =>
               /\ k = Len(self.errors)
               /\ self.errors[k].severity = "FATAL"
               /\ self.summary.fatal_errors = 1
               /\ \A j \in 1..(k - 1) : self.errors[j].severity = "RECOVERABLE"
               /\ pc = "done"
               /\ self.contexts = <<>> /\ self.engagements = <<>>
               /\ LastWritten.context = <<>> /\ LastWritten.engagement = <<>>
               /\ Len(LastWritten.error) = k
    /\ Recorded("MISSING_IDENTITY") =>
           LET row == input[Len(input)]
               column == self.errors[Len(self.errors)].column_name
           IN  /\ Len(self.errors) = 1
               /\ \A k \in 1..(Len(input) - 1) : ~Defective(input[k])
               /\ Defective(row)
               /\ StripIsEmpty(row[column])
               /\ column = "bar" => ~StripIsEmpty(row.session_id)
               /\ column = "ts" => ~StripIsEmpty(row.session_id)
                                   /\ ~StripIsEmpty(row.bar)
    /\ (Done /\ Recorded("UNSORTED_INPUT")) => ~Recorded("TIMESTAMP_INVERSION")

\* an input that is both unsorted and timestamp-inverted reported
\* UNSORTED_INPUT alone
C25_Witness ==
    /\ Done
    /\ Recorded("UNSORTED_INPUT")
    /\ Len(self.errors) = 1
    /\ \E j, k \in 1..Len(rows) :
           /\ rows[j].session_id = rows[k].session_id
           /\ PyInt(rows[j].bar) < PyInt(rows[k].bar)
           /\ StrLess(rows[k].ts, rows[j].ts)
    /\ LastWritten.context = <<>>

-----------------------------------------------------------------------------
(* Properties: the order of the engagement checks *)

\* one of the two prices of the row is a zero
ZeroPrice(row) == FloatIsZero(row.entry_price) \/ FloatIsZero(row.exit_price)

\* the errors of the type recorded so far
ErrorsOfType(error_type) ==
    {k \in 1..Len(self.errors) : self.errors[k].error_type = error_type}

\* the ENGAGEMENT_FINAL rows the merge loop has passed
ProcessedEngagements == RowsOfType("ENGAGEMENT_FINAL", i - 1)

\* C26: the engagement checks are applied in the order price, outcome,
\* duplicate triple and a row is reported under the first check it fails:
\* every processed ENGAGEMENT_FINAL row with a zero price is recorded as
\* INVALID_ENGAGEMENT_PRICE and every one with nonzero prices and an outcome
\* outside the valid set as INVALID_OUTCOME, whether its triple was seen or
\* not, and DUPLICATE_ENGAGEMENT is recorded only for rows that pass both.
C26_PriceOutcomeBeforeDuplicate ==
    pc \in {"merge", "write", "done"} /\ ~Recorded("INTERNAL_ERROR") =>
        /\ Cardinality(ErrorsOfType("INVALID_ENGAGEMENT_PRICE"))
               = Cardinality({k \in ProcessedEngagements : ZeroPrice(rows[k])})
        /\ Cardinality(ErrorsOfType("INVALID_OUTCOME"))
               = Cardinality({k \in ProcessedEngagements :
                                 /\ ~ZeroPrice(rows[k])
                                 /\ rows[k].outcome \notin VALID_OUTCOMES})
        /\ Cardinality(ErrorsOfType("DUPLICATE_ENGAGEMENT"))
               <= Cardinality({k \in ProcessedEngagements :
                                  /\ ~ZeroPrice(rows[k])
                                  /\ rows[k].outcome \in VALID_OUTCOMES})

\* the row passes the price and outcome checks and every earlier
\* ENGAGEMENT_FINAL row of its triple was dropped by one of them
FirstValidOfTriple(k) ==
    /\ PassesValidation(rows[k])
    /\ \A j \in RowsOfType("ENGAGEMENT_FINAL", k - 1) :
           EngKey(rows[j]) = EngKey(rows[k]) => ~PassesValidation(rows[j])

\* C27: INVALID_ENGAGEMENT_PRICE and INVALID_OUTCOME are row-local: the
\* engagements are those the same input gives with the dropped rows removed,
\* so a valid ENGAGEMENT_FINAL row whose triple was carried before it only by
\* rows dropped for their price or outcome is admitted, with its payload.
C27_InvalidRowsAreRowLocal ==
    pc \in {"merge", "write", "done"} /\ ~Recorded("INTERNAL_ERROR") =>
        \A k \in ProcessedEngagements :
            FirstValidOfTriple(k) =>
                \E e \in 1..Len(self.engagements) :
                    /\ EngKey(rows[k]) = <<self.engagements[e].session_id,
                                           self.engagements[e].bar,
                                           self.engagements[e].zone_id>>
                    /\ SamePayload(self.engagements[e], rows[k])

-----------------------------------------------------------------------------
(* Properties: the fields a contribution sets *)

SnapshotFields == {"phase", "zone_id_snapshot", "zone_type_snapshot", "snapshot_message"}

LockFields == {"aggression", "facilitation", "market_state", "raw_state"}

IdentityFields == {"session_id", "bar", "session_type", "ts"}

\* the loop of _merge passes a row of the event type in this step
Passes(event_type) ==
    /\ pc = "merge" /\ i <= Len(rows)
    /\ rows[i].event_type = event_type
    /\ i' = i + 1

\* the row is read with an accumulator of its key open
MeetsOpenAccumulator == current_session_bar = RowKey(rows[i])

\* C28: context fields are partitioned by contributing event type. A
\* MODE_LOCK merged into the open accumulator leaves phase,
\* zone_id_snapshot, zone_type_snapshot, snapshot_message, session_type and
\* ts unchanged and counts one more source row; a MODE_LOCK that opens an
\* accumulator leaves the snapshot fields unset; a PHASE_SNAPSHOT never sets
\* aggression, facilitation, market_state or raw_state; a row rejected with
\* IDENTITY_CONFLICT leaves the accumulator as it was.
C28_FieldsByEventType ==
    [][/\ (Passes("MODE_LOCK") /\ MeetsOpenAccumulator) =>
              LET old == current_context[1]
                  new == current_context'[1]
              IN  IF old.session_type # rows[i].session_type
                  THEN /\ new = old
                       /\ Len(self'.errors) = Len(self.errors) + 1
                  ELSE /\ \A f \in SnapshotFields \cup IdentityFields :
                              new[f] = old[f]
                       /\ new._source_rows = old._source_rows + 1
       /\ (Passes("MODE_LOCK") /\ ~MeetsOpenAccumulator) =>
              \A f \in SnapshotFields : current_context'[1][f] = None
       /\ (Passes("PHASE_SNAPSHOT") /\ MeetsOpenAccumulator) =>
              LET old == current_context[1]
                  new == current_context'[1]
              IN  /\ \A f \in LockFields \cup IdentityFields : new[f] = old[f]
                  /\ old.session_type # rows[i].session_type => new = old
       /\ (Passes("PHASE_SNAPSHOT") /\ ~MeetsOpenAccumulator) =>
              \A f \in LockFields : current_context'[1][f] = None]_vars

\* a lock row with a phase, a zone and a timestamp of its own was merged
\* into the accumulator a snapshot opened
C28_Witness ==
    /\ pc = "merge" /\ i > 1
    /\ rows[i - 1].event_type = "MODE_LOCK"
    /\ rows[i - 1].phase = "ROTATION" /\ rows[i - 1].zone_id = "0"
    /\ current_context # <<>>
    /\ current_context[1]._has_snapshot /\ current_context[1]._has_lock
    /\ current_context[1].phase = "P1"
    /\ current_context[1].zone_id_snapshot = None
    /\ current_context[1].aggression = "INITIATIVE"
    /\ current_context[1].ts # rows[i - 1].ts

-----------------------------------------------------------------------------
(* Properties: finalized contexts *)

\* C29: in every run each (session_id, bar) key is finalized at most once:
\* no two finalized contexts, and no two rows of context.csv, have the same
\* key, and the context store holds for each key the one context finalized
\* for it.
C29_KeyFinalizedOnce ==
    /\ \A j, k \in 1..Len(self.contexts) :
           (self.contexts[j].session_id = self.contexts[k].session_id
            /\ self.contexts[j].bar = self.contexts[k].bar) => j = k
    /\ Len(self.context_by_session_bar) = Len(self.contexts)
    /\ \A k \in 1..Len(self.contexts) :
           self.context_by_session_bar[k].value = self.contexts[k]
    /\ Done => \A j, k \in 1..Len(LastWritten.context) :
           (LastWritten.context[j].session_id = LastWritten.context[k].session_id
            /\ LastWritten.context[j].bar = LastWritten.context[k].bar) => j = k

-----------------------------------------------------------------------------
(* Properties: the summary counters *)

\* the counters of summary.json agree with the three csv files
CountersAgree(files) ==
    /\ files.summary.error_count
           = files.summary.fatal_errors + files.summary.recoverable_errors
    /\ files.summary.error_count = Len(files.error)
    /\ files.summary.fatal_errors
           = Cardinality({k \in 1..Len(files.error) :
                             files.error[k].severity = "FATAL"})
    /\ files.summary.context_rows = Len(files.context)
    /\ files.summary.engagement_rows = Len(files.engagement)

\* the loader recorded a fatal error
LoaderFailed(files) ==
    \E k \in 1..Len(files.error) :
        files.error[k].error_type \in {"MISSING_COLUMNS", "MISSING_IDENTITY"}

\* C30: at the moment outputs are written the summary counters agree with
\* the emitted data on every path: error_count = fatal_errors +
\* recoverable_errors = rows of error.csv, context_rows = rows of
\* context.csv, engagement_rows = rows of engagement.csv, and, when loading
\* recorded no fatal error, input_rows = rows retained after deduplication +
\* duplicate_rows_dropped; errors are only ever appended during a run and
\* are written in the order of detection.
C30_CountersAgreeWithOutputs ==
    [][/\ pc # "done" =>
              /\ Len(self'.errors) >= Len(self.errors)
              /\ \A k \in 1..Len(self.errors) : self'.errors[k] = self.errors[k]
       /\ (pc # "done" /\ pc' = "done") =>
              LET files == written'[Len(written')]
              IN  /\ Len(written') = Len(written) + 1
                  /\ CountersAgree(files)
                  /\ files.error = [k \in 1..Len(self'.errors) |->
                                       ErrorToDict(self'.errors[k])]
                  /\ ~LoaderFailed(files) =>
                         files.summary.input_rows
                             = Len(rows') + files.summary.duplicate_rows_dropped]_vars

\* a run that wrote a context, an engagement, an error of the
\* deduplicator and an error of the merge
C30_Witness ==
    /\ Done
    /\ LastWritten.summary.duplicate_rows_dropped = 1
    /\ LastWritten.summary.context_rows = 1
    /\ LastWritten.summary.engagement_rows = 1
    /\ LastWritten.summary.error_count = 2
    /\ LastWritten.summary.input_rows = 4


====
